---- MODULE Spec2Model ----
(***************************************************************************)
(* State-machine model of the simulation engines of OSEL.                  *)
(*                                                                         *)
(* Part 1: SchedulerEngine (src/src/components/SchedulerEngine.js).        *)
(* A process object is a record; the engine refers to a process by its     *)
(* index in this.processes (the pid of process i is "P<i>", so pids are    *)
(* unique); index 0 stands for null.  A nullable number is <<>> (null) or  *)
(* <<n>>.                                                                  *)
(***************************************************************************)
EXTENDS Integers, Sequences, FiniteSets, TLC

\* ------------------------------------------------------------------ bounds
\* Number of processes of a generated workload.
NumProcs == 2
\* Generated arrival times are 0..MaxArrival.
MaxArrival == 1
\* Generated burst times are 1..MaxBurst.
MaxBurst == 3
\* Generated priorities are 0..MaxPriority.
MaxPriority == 1
\* Under PRIORITY, generated burst times are 1..MaxPriorityBurst.
MaxPriorityBurst == 1
\* Round-robin quanta are 1..MaxQuantum.
MaxQuantum == 2

\* --------------------------------------------------------------- constants
Algorithm == {"FCFS", "SJF", "SRTF", "PRIORITY", "RR"}

ProcessState == {"NEW", "READY", "RUNNING", "TERMINATED"}

NULL == <<>>

\* The workload the simulator starts with: P1(AT=0,BT=8), P2(AT=1,BT=4),
\* P3(AT=2,BT=2), priorities 2, 1, 3.
DemoWorkload ==
  << [arrivalTime |-> 0, burstTime |-> 8, priority |-> 2],
     [arrivalTime |-> 1, burstTime |-> 4, priority |-> 1],
     [arrivalTime |-> 2, burstTime |-> 2, priority |-> 3] >>

\* The generated processes for one policy.  `priority` is an optional input
\* that only PRIORITY reads; for the other policies it is left out of the
\* generated workloads and the constructor sets 0.
GeneratedProcess(alg) ==
  [arrivalTime : 0..MaxArrival,
   burstTime   : IF alg = "PRIORITY" THEN 1..MaxPriorityBurst ELSE 1..MaxBurst,
   priority    : IF alg = "PRIORITY" THEN 0..MaxPriority ELSE {0}]

\* A process that arrives first and outlasts every generated burst, so that
\* the generated processes behind it queue up while it holds the CPU or is
\* preempted by them.
HeadProcess == [arrivalTime |-> 0, burstTime |-> MaxBurst + 1, priority |-> 1]

\* The workloads an engine is constructed with: every NumProcs generated
\* processes, the same behind the head process, and the demo workload.
Workloads(alg) ==
  LET generated == [1..NumProcs -> GeneratedProcess(alg)]
  IN  generated \cup { <<HeadProcess>> \o w : w \in generated }
                \cup {DemoWorkload}

VARIABLES
  algorithm,       \* this.algorithm
  quantum,         \* this.quantum
  original,        \* this.original
  time,            \* this.time
  ready,           \* this.ready: sequence of process indices
  running,         \* this.running: process index, 0 for null
  completedCount,  \* this.completedCount
  gantt,           \* this.gantt: sequence of [pid, start, end]
  trace,           \* this.trace: sequence of events
  quantumCounter,  \* this.quantumCounter
  processes,       \* this.processes
  lastOp,          \* history: the call that produced this state
  edges,           \* history: the process-state assignments of the last call,
                   \* as a set of <<process, from, to>>
  held,            \* a snapshot the caller keeps (NULL: none)
  mem,             \* the MemoryEngine instance (NULL: none constructed)
  paging,          \* the PagingEngine instance (NULL: none constructed)
  pagingInput      \* the processes handed to new PagingEngine (NULL: none)

engineVars == <<time, ready, running, completedCount, gantt, trace,
                quantumCounter, processes>>

vars == <<algorithm, quantum, original, time, ready, running, completedCount,
          gantt, trace, quantumCounter, processes, lastOp, edges, held, mem, paging, pagingInput>>

\* The engine's mutable fields as one record, so that the helpers of step()
\* are functions from engine to engine.
Eng ==
  [time |-> time, ready |-> ready, running |-> running,
   completedCount |-> completedCount, gantt |-> gantt, trace |-> trace,
   quantumCounter |-> quantumCounter, processes |-> processes]

\* ----------------------------------------------------------------- helpers
Indices(n) == [i \in 1..n |-> i]

Front(s) == SubSeq(s, 1, Len(s) - 1)

Last(s) == s[Len(s)]

\* The result of Number() on undefined, the value of a missing field.  It is
\* a number outside every range the model reaches; minus() keeps it apart
\* from the numbers, and NaN === x is false for every clock value x.
NaN == -1000000

\* Number(p[field]): a number is itself.
Number(p, field) == IF field \in DOMAIN p THEN p[field] ELSE NaN

\* a - b
minus(a, b) == IF a = NaN \/ b = NaN THEN NaN ELSE a - b

\* The constructor clones its argument into this.original and reset() clones
\* this.original again; cloning a clone changes nothing, so `original` stands
\* for both.
cloneProcesses(ps) ==
  [i \in 1..Len(ps) |->
     [pid            |-> i,
      arrivalTime    |-> Number(ps[i], "arrivalTime"),
      burstTime      |-> Number(ps[i], "burstTime"),
      remainingTime  |-> Number(ps[i], "burstTime"),
      priority       |-> IF "priority" \in DOMAIN ps[i]
                           THEN Number(ps[i], "priority") ELSE 0,
      completionTime |-> NULL,
      waitingTime    |-> NULL,
      turnaroundTime |-> NULL,
      state          |-> "NEW"]]

\* reset() that leaves the quantum counter as it is.
resetFields_keepsQuantumCounter(orig) ==
  [time |-> 0, ready |-> <<>>, running |-> 0, completedCount |-> 0,
   gantt |-> <<>>, trace |-> <<>>, quantumCounter |-> quantumCounter,
   processes |-> cloneProcesses(orig)]

\* The fields reset() assigns.
resetFields(orig) ==
  [time |-> 0, ready |-> <<>>, running |-> 0, completedCount |-> 0,
   gantt |-> <<>>, trace |-> <<>>, quantumCounter |-> 0,
   processes |-> cloneProcesses(orig)]

\* isDone() that tests for an idle CPU instead of counting completions.
isDone_idleCpu(e) == e.ready = <<>> /\ e.running = 0

isDone(e) == e.completedCount = Len(e.processes)

\* Arrivals noticed one clock late.
arrivalsAtTime_lateByOne(e) ==
  SelectSeq(Indices(Len(e.processes)),
            LAMBDA i : /\ e.processes[i].state = "NEW"
                       /\ e.processes[i].arrivalTime < e.time)

arrivalsAtTime(e) ==
  SelectSeq(Indices(Len(e.processes)),
            LAMBDA i : /\ e.processes[i].state = "NEW"
                       /\ e.processes[i].arrivalTime = e.time)

\* An event keeps the fields that carry state: the clock, the kind, the
\* running pid, the ready pids and the pid named in `transitions` (0: none).
\* The explanation strings are left out.
pushTrace(e, event, proc) ==
  [e EXCEPT !.trace = Append(@, [time    |-> e.time,
                                 event   |-> event,
                                 running |-> e.running,
                                 ready   |-> e.ready,
                                 proc    |-> proc])]

\* Comparators without the arrival-time tie-break.
compare_noTieBreak(alg, a, b) ==
  CASE alg = "SJF" -> a.burstTime - b.burstTime
    [] alg = "SRTF" -> a.remainingTime - b.remainingTime
    [] alg = "PRIORITY" -> a.priority - b.priority
    [] OTHER -> 0

\* The comparators handed to Array.prototype.sort: a negative, zero or
\* positive number.
compare(alg, a, b) ==
  CASE alg = "SJF" ->
         IF a.burstTime - b.burstTime # 0
           THEN a.burstTime - b.burstTime ELSE a.arrivalTime - b.arrivalTime
    [] alg = "SRTF" ->
         IF a.remainingTime - b.remainingTime # 0
           THEN a.remainingTime - b.remainingTime ELSE a.arrivalTime - b.arrivalTime
    [] alg = "PRIORITY" ->
         IF a.priority - b.priority # 0
           THEN a.priority - b.priority ELSE a.arrivalTime - b.arrivalTime
    [] OTHER -> 0

\* Array.prototype.sort is stable: x goes behind every element that does not
\* compare greater than it.
RECURSIVE insertStable(_, _, _, _)
insertStable(alg, procs, s, x) ==
  IF s = <<>> THEN <<x>>
  ELSE IF compare(alg, procs[Head(s)], procs[x]) <= 0
         THEN <<Head(s)>> \o insertStable(alg, procs, Tail(s), x)
         ELSE <<x>> \o s

RECURSIVE stableSort(_, _, _)
stableSort(alg, procs, s) ==
  IF s = <<>> THEN <<>>
  ELSE insertStable(alg, procs, stableSort(alg, procs, Front(s)), Last(s))

\* sortReady() that leaves the PRIORITY queue in insertion order.
sortReady_priorityUnsorted(alg, rdy, procs) ==
  IF alg \in {"SJF", "SRTF"} THEN stableSort(alg, procs, rdy) ELSE rdy

sortReady(alg, rdy, procs) ==
  IF alg \in {"SJF", "SRTF", "PRIORITY"} THEN stableSort(alg, procs, rdy) ELSE rdy

\* dispatchNext() that takes the back of the queue (pop() for shift()).
dispatchNext_takesLast(e) ==
  IF e.ready = <<>> THEN e
  ELSE
    LET sorted == IF algorithm = "RR" \/ algorithm = "FCFS"
                    THEN e.ready
                    ELSE sortReady(algorithm, e.ready, e.processes)
        chosen == Last(sorted)
        e1     == pushTrace([e EXCEPT !.ready = Front(sorted)], "DISPATCH", chosen)
    IN  [e1 EXCEPT !.running = chosen,
                   !.processes[chosen].state = "RUNNING",
                   !.quantumCounter = 0]

dispatchNext(e) ==
  IF e.ready = <<>> THEN e
  ELSE
    LET sorted == IF algorithm = "RR" \/ algorithm = "FCFS"
                    THEN e.ready
                    ELSE sortReady(algorithm, e.ready, e.processes)
        chosen == Head(sorted)
        e1     == pushTrace([e EXCEPT !.ready = Tail(sorted)], "DISPATCH", chosen)
    IN  [e1 EXCEPT !.running = chosen,
                   !.processes[chosen].state = "RUNNING",
                   !.quantumCounter = 0]

\* shouldPreempt() with <= for < in the SRTF test.
shouldPreempt_srtfOnEqual(e) ==
  IF e.running = 0 THEN FALSE
  ELSE
    CASE algorithm = "SRTF" ->
           LET s == stableSort("SRTF", e.processes, e.ready)
           IN  /\ s # <<>>
               /\ e.processes[s[1]].remainingTime
                    <= e.processes[e.running].remainingTime
      [] algorithm = "PRIORITY" ->
           LET s == stableSort("PRIORITY", e.processes, e.ready)
           IN  /\ s # <<>>
               /\ e.processes[s[1]].priority < e.processes[e.running].priority
      [] algorithm = "RR" -> e.quantumCounter >= quantum
      [] OTHER -> FALSE

\* shouldPreempt() with <= for < in the PRIORITY test.
shouldPreempt_priorityOnEqual(e) ==
  IF e.running = 0 THEN FALSE
  ELSE
    CASE algorithm = "SRTF" ->
           LET s == stableSort("SRTF", e.processes, e.ready)
           IN  /\ s # <<>>
               /\ e.processes[s[1]].remainingTime
                    < e.processes[e.running].remainingTime
      [] algorithm = "PRIORITY" ->
           LET s == stableSort("PRIORITY", e.processes, e.ready)
           IN  /\ s # <<>>
               /\ e.processes[s[1]].priority <= e.processes[e.running].priority
      [] algorithm = "RR" -> e.quantumCounter >= quantum
      [] OTHER -> FALSE

\* shouldPreempt() with > for >= in the RR test.
shouldPreempt_rrLate(e) ==
  IF e.running = 0 THEN FALSE
  ELSE
    CASE algorithm = "SRTF" ->
           LET s == stableSort("SRTF", e.processes, e.ready)
           IN  /\ s # <<>>
               /\ e.processes[s[1]].remainingTime
                    < e.processes[e.running].remainingTime
      [] algorithm = "PRIORITY" ->
           LET s == stableSort("PRIORITY", e.processes, e.ready)
           IN  /\ s # <<>>
               /\ e.processes[s[1]].priority < e.processes[e.running].priority
      [] algorithm = "RR" -> e.quantumCounter > quantum
      [] OTHER -> FALSE

\* shouldPreempt() that applies the shortest-remaining-time rule to SJF too.
shouldPreempt_sjfPreempts(e) ==
  IF e.running = 0 THEN FALSE
  ELSE
    CASE algorithm \in {"SRTF", "SJF"} ->
           LET s == stableSort("SRTF", e.processes, e.ready)
           IN  /\ s # <<>>
               /\ e.processes[s[1]].remainingTime
                    < e.processes[e.running].remainingTime
      [] algorithm = "PRIORITY" ->
           LET s == stableSort("PRIORITY", e.processes, e.ready)
           IN  /\ s # <<>>
               /\ e.processes[s[1]].priority < e.processes[e.running].priority
      [] algorithm = "RR" -> e.quantumCounter >= quantum
      [] OTHER -> FALSE

\* shouldPreempt() that lets FCFS give way to any waiting process.
shouldPreempt_fcfsGivesWay(e) ==
  IF e.running = 0 THEN FALSE
  ELSE
    CASE algorithm = "SRTF" ->
           LET s == stableSort("SRTF", e.processes, e.ready)
           IN  /\ s # <<>>
               /\ e.processes[s[1]].remainingTime
                    < e.processes[e.running].remainingTime
      [] algorithm = "PRIORITY" ->
           LET s == stableSort("PRIORITY", e.processes, e.ready)
           IN  /\ s # <<>>
               /\ e.processes[s[1]].priority < e.processes[e.running].priority
      [] algorithm = "RR" -> e.quantumCounter >= quantum
      [] algorithm = "FCFS" -> e.ready # <<>>
      [] OTHER -> FALSE

shouldPreempt(e) ==
  IF e.running = 0 THEN FALSE
  ELSE
    CASE algorithm = "SRTF" ->
           LET s == stableSort("SRTF", e.processes, e.ready)
           IN  /\ s # <<>>
               /\ e.processes[s[1]].remainingTime
                    < e.processes[e.running].remainingTime
      [] algorithm = "PRIORITY" ->
           LET s == stableSort("PRIORITY", e.processes, e.ready)
           IN  /\ s # <<>>
               /\ e.processes[s[1]].priority < e.processes[e.running].priority
      [] algorithm = "RR" -> e.quantumCounter >= quantum
      [] OTHER -> FALSE

\* preemptRunning() that forgets to set the preempted process READY.
preemptRunning_keepsState(e) ==
  IF e.running = 0 THEN e
  ELSE
    LET e1 == [e EXCEPT !.ready = Append(@, e.running)]
        e2 == pushTrace(e1, "PREEMPT", e.running)
    IN  [e2 EXCEPT !.running = 0, !.quantumCounter = 0]

\* Preemption that marks the process READY without queueing it.
preemptRunning_notQueued(e) ==
  IF e.running = 0 THEN e
  ELSE
    LET e1 == [e EXCEPT !.processes[e.running].state = "READY"]
        e2 == pushTrace(e1, "PREEMPT", e.running)
    IN  [e2 EXCEPT !.running = 0, !.quantumCounter = 0]

preemptRunning(e) ==
  IF e.running = 0 THEN e
  ELSE
    LET e1 == [e EXCEPT !.processes[e.running].state = "READY",
                        !.ready = Append(@, e.running)]
        e2 == pushTrace(e1, "PREEMPT", e.running)
    IN  [e2 EXCEPT !.running = 0, !.quantumCounter = 0]

\* extendGantt() that opens a new segment for every unit.
extendGantt_neverMerges(e, pid) ==
  [e EXCEPT !.gantt = Append(@, [pid |-> pid, start |-> e.time,
                                 end |-> e.time + 1])]

extendGantt(e, pid) ==
  IF e.gantt = <<>> \/ Last(e.gantt).pid # pid
    THEN [e EXCEPT !.gantt = Append(@, [pid |-> pid, start |-> e.time,
                                        end |-> e.time + 1])]
    ELSE [e EXCEPT !.gantt[Len(e.gantt)].end = @ + 1]

\* ------------------------------------------------------- the parts of step()
\* 1. arrivals at the current time, in the order of this.processes
\* Arrivals that enter the ready queue at its front.
RECURSIVE handleArrivals_atFront(_, _)
handleArrivals_atFront(e, arriving) ==
  IF arriving = <<>> THEN e
  ELSE
    LET p  == Head(arriving)
        e1 == [e EXCEPT !.processes[p].state = "READY", !.ready = <<p>> \o @]
    IN  handleArrivals_atFront(pushTrace(e1, "ARRIVAL", p), Tail(arriving))

RECURSIVE handleArrivals(_, _)
handleArrivals(e, arriving) ==
  IF arriving = <<>> THEN e
  ELSE
    LET p  == Head(arriving)
        e1 == [e EXCEPT !.processes[p].state = "READY", !.ready = Append(@, p)]
    IN  handleArrivals(pushTrace(e1, "ARRIVAL", p), Tail(arriving))

stepArrivals(e) == handleArrivals(e, arrivalsAtTime(e))

\* A step that never preempts for a better candidate.
stepPreempt_never(e) == e

\* 2. preemption by a better candidate (SRTF, PRIORITY)
stepPreempt(e) ==
  IF e.running # 0 /\ shouldPreempt(e) /\ algorithm # "RR"
    THEN preemptRunning(e) ELSE e

\* Dispatch that lets a clock tick pass after an arrival: nothing is
\* dispatched in a step that has admitted a process.
stepDispatch_afterArrivalTick(e) ==
  IF e.running = 0
       /\ ~(e.trace # <<>> /\ Last(e.trace).event = "ARRIVAL"
                           /\ Last(e.trace).time = e.time)
    THEN dispatchNext(e) ELSE e

\* 3. dispatch if no process is running
stepDispatch(e) == IF e.running = 0 THEN dispatchNext(e) ELSE e

\* The completion stamped with the clock at which the unit began.
stepComplete_completionAtClock(e) ==
  LET r  == e.running
      e1 == [e EXCEPT !.processes[r].state = "TERMINATED",
                      !.processes[r].completionTime = <<e.time>>]
      e2 == pushTrace(e1, "COMPLETE", r)
  IN  [e2 EXCEPT !.running = 0,
                 !.completedCount = @ + 1,
                 !.quantumCounter = 0,
                 !.time = @ + 1]

\* 6. completion of the running process, after its unit of work
stepComplete(e) ==
  LET r  == e.running
      e1 == [e EXCEPT !.processes[r].state = "TERMINATED",
                      !.processes[r].completionTime = <<e.time + 1>>]
      e2 == pushTrace(e1, "COMPLETE", r)
  IN  [e2 EXCEPT !.running = 0,
                 !.completedCount = @ + 1,
                 !.quantumCounter = 0,
                 !.time = @ + 1]

\* The unit of work with the completion test made before the decrement.
stepExecute_testBeforeWork(e) ==
  IF e.running = 0
    THEN [pushTrace(e, "IDLE", 0) EXCEPT !.time = @ + 1]
    ELSE
      LET r  == e.running
          e1 == extendGantt(e, e.processes[r].pid)
          e2 == [e1 EXCEPT !.processes[r].remainingTime = minus(@, 1),
                           !.quantumCounter = @ + 1]
      IN  IF e1.processes[r].remainingTime = 0 THEN stepComplete(e2)
          ELSE IF algorithm = "RR" /\ shouldPreempt(e2)
                 THEN preemptRunning([e2 EXCEPT !.time = @ + 1])
                 ELSE [pushTrace(e2, "TICK", 0) EXCEPT !.time = @ + 1]

\* 4.-8. idle, or one unit of work and what follows it
stepExecute(e) ==
  IF e.running = 0
    THEN [pushTrace(e, "IDLE", 0) EXCEPT !.time = @ + 1]
    ELSE
      LET r  == e.running
          e1 == extendGantt(e, e.processes[r].pid)
          e2 == [e1 EXCEPT !.processes[r].remainingTime = minus(@, 1),
                           !.quantumCounter = @ + 1]
      IN  IF e2.processes[r].remainingTime = 0 THEN stepComplete(e2)
          ELSE IF algorithm = "RR" /\ shouldPreempt(e2)
                 THEN preemptRunning([e2 EXCEPT !.time = @ + 1])
                 ELSE [pushTrace(e2, "TICK", 0) EXCEPT !.time = @ + 1]

\* The process-state assignments that lead from engine a to engine b.
stateEdges(a, b) ==
  { <<p, a.processes[p].state, b.processes[p].state>> :
      p \in { q \in 1..Len(a.processes) :
                a.processes[q].state # b.processes[q].state } }

\* ------------------------------------------------------------- finalizeMetrics
\* Number((x).toFixed(2)) of x = n / d >= 0, in hundredths.
toFixed2(n, d) == (200 * n + d) \div (2 * d)

RECURSIVE sum(_)
sum(s) == IF s = <<>> THEN 0 ELSE Head(s) + sum(Tail(s))

\* null coerces to 0 in arithmetic
num(x) == IF x = NULL THEN 0 ELSE x[1]

finalizedProcesses(procs) ==
  [i \in 1..Len(procs) |->
     LET tat == minus(num(procs[i].completionTime), procs[i].arrivalTime)
     IN  [procs[i] EXCEPT !.turnaroundTime = <<tat>>,
                          !.waitingTime = <<minus(tat, procs[i].burstTime)>>]]

finalizeMetrics(e) ==
  LET ps == finalizedProcesses(e.processes)
      n  == Len(ps)
      w  == sum([i \in 1..n |-> ps[i].waitingTime[1]])
      t  == sum([i \in 1..n |-> ps[i].turnaroundTime[1]])
  IN  [processes  |-> ps,
       averages   |-> [waiting |-> toFixed2(w, n), turnaround |-> toFixed2(t, n)],
       finalClock |-> e.time]

\* ------------------------------------------------------------------ snapshot
\* getSnapshot(): new objects for `running`, `ready` and `processes`, new
\* arrays for `trace` and `gantt`.
getSnapshot(e) ==
  [time      |-> e.time,
   running   |-> IF e.running = 0 THEN NULL
                 ELSE << [pid           |-> e.processes[e.running].pid,
                          remainingTime |-> e.processes[e.running].remainingTime,
                          burstTime     |-> e.processes[e.running].burstTime] >>,
   ready     |-> [i \in 1..Len(e.ready) |->
                    [pid           |-> e.processes[e.ready[i]].pid,
                     remainingTime |-> e.processes[e.ready[i]].remainingTime,
                     priority      |-> e.processes[e.ready[i]].priority,
                     burstTime     |-> e.processes[e.ready[i]].burstTime,
                     arrivalTime   |-> e.processes[e.ready[i]].arrivalTime]],
   trace     |-> e.trace,
   gantt     |-> e.gantt,
   processes |-> [i \in 1..Len(e.processes) |->
                    [pid            |-> e.processes[i].pid,
                     arrivalTime    |-> e.processes[i].arrivalTime,
                     burstTime      |-> e.processes[i].burstTime,
                     remainingTime  |-> e.processes[i].remainingTime,
                     priority       |-> e.processes[i].priority,
                     state          |-> e.processes[i].state,
                     completionTime |-> e.processes[i].completionTime]],
   done      |-> isDone(e)]

\* A snapshot in the caller's hands.  [...this.gantt] copies the array, not
\* the segments: the entries of snapshot.gantt are the very objects of
\* this.gantt, until reset() gives the engine a new array (sameSegments).
\* The events of [...this.trace] are shared too, but no code writes to an
\* event after pushTrace().
keepSnapshot(e) == [snapshot |-> getSnapshot(e), sameSegments |-> TRUE]

\* The kept snapshot once the engine's timeline has become g: a segment that
\* extendGantt() lengthens in place is lengthened in the snapshot as well.
aliased(h, g) ==
  IF h = NULL THEN NULL
  ELSE IF h.sameSegments
         THEN [h EXCEPT !.snapshot.gantt = SubSeq(g, 1, Len(@))]
         ELSE h

\* -------------------------------------------------------------- the machine
Init ==
  /\ algorithm \in Algorithm
  /\ quantum \in (IF algorithm = "RR" THEN 1..MaxQuantum ELSE {1})
  /\ original \in Workloads(algorithm)
  /\ time = 0
  /\ ready = <<>>
  /\ running = 0
  /\ completedCount = 0
  /\ gantt = <<>>
  /\ trace = <<>>
  /\ quantumCounter = 0
  /\ processes = cloneProcesses(original)
  /\ lastOp = "construct"
  /\ edges = {}
  /\ held = NULL
  /\ mem = NULL
  /\ paging = NULL
  /\ pagingInput = NULL

setEngine(e) ==
  /\ time' = e.time
  /\ ready' = e.ready
  /\ running' = e.running
  /\ completedCount' = e.completedCount
  /\ gantt' = e.gantt
  /\ trace' = e.trace
  /\ quantumCounter' = e.quantumCounter
  /\ processes' = e.processes

\* step() on an engine that is not done: the engine it leaves, and the
\* process-state assignments it made.
stepResult(e) ==
  LET e1 == stepArrivals(e)
      e2 == stepPreempt(e1)
      e3 == stepDispatch(e2)
      e4 == stepExecute(e3)
  IN  [eng   |-> e4,
       edges |-> stateEdges(e, e1) \cup stateEdges(e1, e2)
                   \cup stateEdges(e2, e3) \cup stateEdges(e3, e4)]

\* step()
Step ==
  /\ lastOp' = "step"
  /\ IF isDone(Eng)
       THEN /\ UNCHANGED engineVars
            /\ edges' = {}
       ELSE \E r \in {stepResult(Eng)} :
              /\ setEngine(r.eng)
              /\ edges' = r.edges
  /\ held' = aliased(held, gantt')
  /\ UNCHANGED <<algorithm, quantum, original, mem, paging, pagingInput>>

\* reset()
Reset ==
  /\ lastOp' = "reset"
  /\ setEngine(resetFields(original))
  /\ edges' = {}
  /\ held' = IF held = NULL THEN NULL ELSE [held EXCEPT !.sameSegments = FALSE]
  /\ UNCHANGED <<algorithm, quantum, original, mem, paging, pagingInput>>

\* finalizeMetrics(), which the simulator calls once the run is done
FinalizeMetrics ==
  /\ isDone(Eng)
  /\ lastOp' = "finalizeMetrics"
  /\ processes' = finalizeMetrics(Eng).processes
  /\ edges' = {}
  /\ UNCHANGED <<algorithm, quantum, original, time, ready, running,
                 completedCount, gantt, trace, quantumCounter, held, mem, paging, pagingInput>>

Next == Step \/ Reset \/ FinalizeMetrics

Spec == Init /\ [][Next]_vars

\* ------------------------------------------------------- what the claims use
Procs == DOMAIN processes

AllTerminated == \A p \in Procs : processes[p].state = "TERMINATED"

\* The events the current call appended to the trace.
NewEvents == SubSeq(trace', Len(trace) + 1, Len(trace'))

HasEvent(evs, kind) == \E i \in DOMAIN evs : evs[i].event = kind

\* The process that the current call executed for one time unit (0: none):
\* the call extended the timeline.
ExecutedNow ==
  IF lastOp' = "step" /\ gantt' # gantt THEN Last(gantt').pid ELSE 0

\* ---------------------------------------------------------------- C1
\* C1: under every policy and after any sequence of step()/reset() calls, at
\* most one process has state RUNNING, and a process has state RUNNING
\* exactly when it is the engine's `running` process.
C1_SingleRunning ==
  /\ Cardinality({p \in Procs : processes[p].state = "RUNNING"}) <= 1
  /\ \A p \in Procs : processes[p].state = "RUNNING" <=> running = p

\* A process was preempted and another one holds the CPU between two calls.
C1_Witness ==
  /\ running # 0
  /\ HasEvent(trace, "PREEMPT")
  /\ \E p \in Procs : processes[p].state = "READY"

\* ---------------------------------------------------------------- C2
AllowedEdges ==
  { <<"NEW", "READY">>, <<"READY", "RUNNING">>,
    <<"RUNNING", "TERMINATED">>, <<"RUNNING", "READY">> }

\* C2: every assignment to a process's state made by a call follows one of
\* NEW->READY (only in the step whose clock equals the arrivalTime),
\* READY->RUNNING, RUNNING->TERMINATED and RUNNING->READY (only under SRTF,
\* PRIORITY and RR); a process's state changes only by such assignments, and
\* a TERMINATED process stays TERMINATED until reset().
C2_Lifecycle ==
  [][ /\ \A ed \in edges' :
           /\ <<ed[2], ed[3]>> \in AllowedEdges
           /\ ed[2] = "NEW" => processes[ed[1]].arrivalTime = time
           /\ (ed[2] = "RUNNING" /\ ed[3] = "READY")
                => algorithm \in {"SRTF", "PRIORITY", "RR"}
      /\ lastOp' # "reset" =>
           \A p \in Procs :
             /\ processes[p].state = "TERMINATED"
                  => processes'[p].state = "TERMINATED"
             /\ processes'[p].state # processes[p].state
                  => \E ed \in edges' : ed[1] = p
    ]_vars

\* One step admitted a process, preempted the running one and dispatched
\* another.
C2_Witness ==
  /\ \E ed \in edges : ed[2] = "NEW" /\ ed[3] = "READY"
  /\ \E ed \in edges : ed[2] = "RUNNING" /\ ed[3] = "READY"
  /\ \E ed \in edges : ed[2] = "READY" /\ ed[3] = "RUNNING"

\* ---------------------------------------------------------------- C3
\* C3: for integer burstTime >= 1, every process has
\* 0 <= remainingTime <= burstTime and is TERMINATED iff its remainingTime
\* is 0; a step lowers the remainingTime of the process it executes by
\* exactly 1 and leaves every other remainingTime unchanged.
C3_RemainingTime ==
  /\ [](\A p \in Procs :
          /\ 0 <= processes[p].remainingTime
          /\ processes[p].remainingTime <= processes[p].burstTime
          /\ processes[p].state = "TERMINATED" <=> processes[p].remainingTime = 0)
  /\ [][ lastOp' = "step" =>
           \A p \in Procs :
             processes'[p].remainingTime =
               IF ExecutedNow = processes[p].pid
                 THEN processes[p].remainingTime - 1
                 ELSE processes[p].remainingTime
    ]_vars

\* One process has finished and another is part-way through its burst.
C3_Witness ==
  /\ lastOp = "step"
  /\ \E p, q \in Procs :
       /\ processes[p].state = "TERMINATED" /\ processes[p].remainingTime = 0
       /\ 0 < processes[q].remainingTime
       /\ processes[q].remainingTime < processes[q].burstTime

\* ---------------------------------------------------------------- C4
\* C4: a step() call on an engine whose processes are not all TERMINATED
\* advances the clock by exactly one; a call when all are TERMINATED changes
\* no field of the engine.
C4_StepClock ==
  [][ /\ lastOp' = "step" =>
           IF AllTerminated THEN UNCHANGED engineVars ELSE time' = time + 1
    ]_vars

\* A step() call was made on a finished run that had idled, ticked and
\* completed processes.
C4_Witness ==
  /\ lastOp = "step"
  /\ AllTerminated
  /\ edges = {}
  /\ HasEvent(trace, "IDLE")
  /\ HasEvent(trace, "TICK")

\* ---------------------------------------------------------------- C5
\* The processes in ready-queue insertion order: ascending arrivalTime, input
\* order among equal arrival times.
ArrivalOrder ==
  CHOOSE s \in [1..Len(processes) -> Procs] :
    \A i, j \in 1..Len(processes) :
      i < j => \/ processes[s[i]].arrivalTime < processes[s[j]].arrivalTime
               \/ /\ processes[s[i]].arrivalTime = processes[s[j]].arrivalTime
                  /\ s[i] < s[j]

\* The pids of the events of one kind, in trace order.
RECURSIVE EventProcs(_, _)
EventProcs(evs, kind) ==
  IF evs = <<>> THEN <<>>
  ELSE (IF Head(evs).event = kind THEN <<Head(evs).proc>> ELSE <<>>)
         \o EventProcs(Tail(evs), kind)

IsPrefix(s, t) == Len(s) <= Len(t) /\ s = SubSeq(t, 1, Len(s))

Max(a, b) == IF a >= b THEN a ELSE b

\* max(completion of the (k-1)-th, arrivalTime of the k-th) + its burstTime,
\* the processes taken in the given order
RECURSIVE FcfsCompletion(_, _)
FcfsCompletion(order, k) ==
  IF k = 0 THEN 0
  ELSE Max(FcfsCompletion(order, k - 1), processes[order[k]].arrivalTime)
         + processes[order[k]].burstTime

\* C5: under FCFS the processes are dispatched, and complete, in ready-queue
\* insertion order, the k-th of them at
\* max(completion of the (k-1)-th, its arrivalTime) + its burstTime; the
\* demo workload P1(0,8), P2(1,4), P3(2,2) completes at 8, 12, 14 with an
\* average waiting time of 5.67 (567 hundredths).
C5_Fcfs ==
  algorithm = "FCFS" =>
    /\ \E order \in {ArrivalOrder} :
         /\ IsPrefix(EventProcs(trace, "DISPATCH"), order)
         /\ IsPrefix(EventProcs(trace, "COMPLETE"), order)
         /\ \A k \in 1..Len(processes) :
              processes[order[k]].state = "TERMINATED" =>
                processes[order[k]].completionTime = <<FcfsCompletion(order, k)>>
    /\ (original = DemoWorkload /\ AllTerminated) =>
         /\ processes[1].completionTime = <<8>>
         /\ processes[2].completionTime = <<12>>
         /\ processes[3].completionTime = <<14>>
         /\ finalizeMetrics(Eng).averages.waiting = 567

\* The demo workload has run to its end under FCFS and the metrics are in.
C5_Witness ==
  /\ algorithm = "FCFS"
  /\ original = DemoWorkload
  /\ AllTerminated
  /\ lastOp = "finalizeMetrics"
  /\ processes[3].waitingTime = <<10>>

\* ---------------------------------------------------------------- C6
\* The process the current call dispatched, if any: the set is empty or a
\* singleton.
DispatchedNow == { p \in Procs : <<p, "READY", "RUNNING">> \in edges' }

\* The processes left READY by a dispatch of the current call.  Under SJF,
\* SRTF and PRIORITY nothing becomes READY in a call after its dispatch.
LeftReady == { q \in Procs : processes'[q].state = "READY" }

\* C6: under SJF (SRTF) every dispatch takes a process whose burstTime
\* (remainingTime) is minimal among the READY processes at that moment, and
\* among those one whose arrivalTime is earliest.
C6_ShortestDispatch ==
  [][ /\ algorithm \in {"SJF", "SRTF"} =>
           \A c \in DispatchedNow : \A q \in LeftReady :
             LET kc == IF algorithm = "SJF" THEN processes[c].burstTime
                                            ELSE processes[c].remainingTime
                 kq == IF algorithm = "SJF" THEN processes[q].burstTime
                                            ELSE processes[q].remainingTime
             IN  \/ kc < kq
                 \/ /\ kc = kq
                    /\ processes[c].arrivalTime <= processes[q].arrivalTime
    ]_vars

\* Under SRTF a preempted process was dispatched ahead of a READY process
\* with the same remaining time that arrived later and stood before it in
\* the queue.
C6_Witness ==
  /\ algorithm = "SRTF"
  /\ \E ed \in edges : \E q \in Procs :
       /\ ed[2] = "READY" /\ ed[3] = "RUNNING"
       /\ processes[q].state = "READY"
       /\ processes[q].remainingTime = processes[ed[1]].remainingTime + 1
       /\ processes[ed[1]].arrivalTime < processes[q].arrivalTime
       /\ \E i \in DOMAIN trace :
            trace[i].event = "PREEMPT" /\ trace[i].proc = ed[1]

\* ---------------------------------------------------------------- C7
\* C7: under PRIORITY every dispatch takes a process whose priority value is
\* lowest among the READY processes at that moment, and among those one
\* whose arrivalTime is earliest.
C7_PriorityDispatch ==
  [][ /\ algorithm = "PRIORITY" =>
           \A c \in DispatchedNow : \A q \in LeftReady :
             \/ processes[c].priority < processes[q].priority
             \/ /\ processes[c].priority = processes[q].priority
                /\ processes[c].arrivalTime <= processes[q].arrivalTime
    ]_vars

\* Under PRIORITY a preempted process was dispatched ahead of a READY
\* process of equal priority that arrived later.
C7_Witness ==
  /\ algorithm = "PRIORITY"
  /\ \E ed \in edges : \E q \in Procs :
       /\ ed[2] = "READY" /\ ed[3] = "RUNNING"
       /\ processes[q].state = "READY"
       /\ processes[q].priority = processes[ed[1]].priority
       /\ processes[ed[1]].arrivalTime < processes[q].arrivalTime
       /\ \E i \in DOMAIN trace :
            trace[i].event = "PREEMPT" /\ trace[i].proc = ed[1]

\* ---------------------------------------------------------------- C8
\* The processes that are READY once the current step has admitted its
\* arrivals: those READY before it and those arriving at its clock.
Arriving ==
  { p \in Procs : processes[p].state = "NEW" /\ processes[p].arrivalTime = time }

ReadyAfterArrivals == { p \in Procs : processes[p].state = "READY" } \cup Arriving

PreemptedNow == { p \in Procs : <<p, "RUNNING", "READY">> \in edges' }

\* C8: under SRTF, when a process arriving at the step's clock has less
\* remainingTime than the running process, the running process is preempted
\* in that step and the step's time unit is executed by a READY process of
\* least remainingTime; when no READY process has less remainingTime than
\* the running process, it is not preempted and executes the unit.
C8_SrtfPreempt ==
  [][ /\ (algorithm = "SRTF" /\ lastOp' = "step" /\ running # 0) =>
           /\ (\E p \in Arriving :
                  processes[p].remainingTime < processes[running].remainingTime)
                => /\ PreemptedNow = {running}
                   /\ ExecutedNow \in ReadyAfterArrivals
                   /\ \A q \in ReadyAfterArrivals :
                        processes[ExecutedNow].remainingTime
                          <= processes[q].remainingTime
           /\ (\A p \in ReadyAfterArrivals :
                  processes[p].remainingTime >= processes[running].remainingTime)
                => /\ PreemptedNow = {}
                   /\ ExecutedNow = running
    ]_vars

\* Under SRTF a step admitted a process, preempted the running one and
\* executed a third process that was the shortest.
C8_Witness ==
  /\ algorithm = "SRTF"
  /\ lastOp = "step"
  /\ \E a, r, x \in Procs :
       /\ <<a, "NEW", "READY">> \in edges
       /\ <<r, "RUNNING", "READY">> \in edges
       /\ <<x, "READY", "RUNNING">> \in edges
       /\ Last(gantt).pid = x /\ Last(gantt).end = time
       /\ processes[a].state = "READY"

\* ---------------------------------------------------------------- C9
\* C9: under PRIORITY the running process is preempted in a step if and only
\* if some READY process has a strictly lower priority value; a READY
\* process of equal priority never preempts, whatever the arrival times.
C9_PriorityPreempt ==
  [][ /\ (algorithm = "PRIORITY" /\ lastOp' = "step") =>
           IF running = 0 THEN PreemptedNow = {}
           ELSE IF \E p \in ReadyAfterArrivals :
                     processes[p].priority < processes[running].priority
                  THEN PreemptedNow = {running}
                  ELSE PreemptedNow = {} /\ ExecutedNow = running
    ]_vars

\* Under PRIORITY a step admitted a process whose priority equals the running
\* process's, and the running process kept the CPU for that time unit.
C9_Witness ==
  /\ algorithm = "PRIORITY"
  /\ lastOp = "step"
  /\ running # 0
  /\ Last(gantt).pid = running /\ Last(gantt).end = time
  /\ \E q \in Procs :
       /\ edges = { <<q, "NEW", "READY">> }
       /\ processes[q].state = "READY"
       /\ processes[q].priority = processes[running].priority

\* ---------------------------------------------------------------- C10
\* The clock of the last DISPATCH event of a trace.
RECURSIVE LastDispatchTime(_)
LastDispatchTime(evs) ==
  IF evs = <<>> THEN 0
  ELSE IF Last(evs).event = "DISPATCH" THEN Last(evs).time
  ELSE LastDispatchTime(Front(evs))

\* C10: under RR with quantum q, the process a step executes is preempted in
\* that step exactly when it has then executed q consecutive units since its
\* last dispatch and has remainingTime > 0; the PREEMPT comes after the unit
\* and puts the process at the back of the ready queue, whatever the queue
\* holds; no process executes more than q units after one dispatch, and a
\* step that executes nothing preempts nothing.
C10_RrQuantum ==
  [][ /\ (algorithm = "RR" /\ lastOp' = "step") =>
           IF ExecutedNow = 0 THEN PreemptedNow = {}
           ELSE
             LET r     == ExecutedNow
                 units == time' - LastDispatchTime(trace')
             IN  /\ units <= quantum
                 /\ r \in PreemptedNow
                      <=> (units = quantum /\ processes'[r].remainingTime > 0)
                 /\ PreemptedNow \subseteq {r}
                 /\ r \in PreemptedNow =>
                      /\ ready' # <<>> /\ Last(ready') = r
                      /\ Cardinality({i \in DOMAIN ready' : ready'[i] = r}) = 1
                      /\ Last(trace').event = "PREEMPT"
                      /\ Last(trace').time = time + 1
                      /\ running' = 0
    ]_vars

\* Under RR with quantum 2 a process was preempted when its quantum ran
\* out although no other process was waiting.
C10_Witness ==
  /\ algorithm = "RR"
  /\ quantum = 2
  /\ lastOp = "step"
  /\ \E p \in Procs :
       /\ <<p, "RUNNING", "READY">> \in edges
       /\ ready = <<p>>
       /\ processes[p].remainingTime > 0
       /\ Last(gantt).pid = p /\ Last(gantt).end = time

\* ---------------------------------------------------------------- C11
\* The timeline the RR scenario names, with P1 running on to the end.
RrDemoTimeline ==
  << [pid |-> 1, start |-> 0,  end |-> 2],
     [pid |-> 2, start |-> 2,  end |-> 4],
     [pid |-> 3, start |-> 4,  end |-> 6],
     [pid |-> 1, start |-> 6,  end |-> 8],
     [pid |-> 2, start |-> 8,  end |-> 10],
     [pid |-> 1, start |-> 10, end |-> 14] >>

\* Timeline g is timeline t as far as it has got: the same segments, the
\* last one possibly still growing.
TimelineSoFar(g, t) ==
  /\ Len(g) <= Len(t)
  /\ \A i \in DOMAIN g :
       /\ g[i].pid = t[i].pid
       /\ g[i].start = t[i].start
       /\ g[i].end <= t[i].end
       /\ i < Len(g) => g[i].end = t[i].end

\* The PREEMPT events of a trace, in order.
Preempts(evs) == SelectSeq(evs, LAMBDA ev : ev.event = "PREEMPT")

\* C11: for the demo workload P1(0,8), P2(1,4), P3(2,2) under RR with
\* quantum 2, the first PREEMPT event is at clock 2 and puts P1 behind P2 in
\* the ready queue, the timeline is P1(0-2), P2(2-4), P3(4-6), P1(6-8),
\* P2(8-10), P1(10-14), and the run is complete at clock 14.
C11_RrDemo ==
  (algorithm = "RR" /\ quantum = 2 /\ original = DemoWorkload) =>
    /\ Preempts(trace) # <<>> =>
         /\ Preempts(trace)[1].time = 2
         /\ Preempts(trace)[1].proc = 1
         /\ Preempts(trace)[1].ready = <<2, 1>>
    /\ TimelineSoFar(gantt, RrDemoTimeline)
    /\ AllTerminated => time = 14 /\ gantt = RrDemoTimeline

\* ---------------------------------------------------------------- C12
\* C12: once a run is complete (every process TERMINATED, any policy),
\* finalizeMetrics() leaves every process with
\* turnaroundTime = completionTime - arrivalTime and
\* waitingTime = turnaroundTime - burstTime, where turnaroundTime >= burstTime,
\* waitingTime >= 0 and completionTime >= arrivalTime + burstTime.
C12_Metrics ==
  [][ /\ (lastOp' = "finalizeMetrics" /\ AllTerminated) =>
           \A p \in Procs :
             /\ processes[p].completionTime # NULL
             /\ processes'[p].completionTime = processes[p].completionTime
             /\ processes'[p].turnaroundTime =
                  << processes[p].completionTime[1] - processes[p].arrivalTime >>
             /\ processes'[p].waitingTime =
                  << processes'[p].turnaroundTime[1] - processes[p].burstTime >>
             /\ processes'[p].turnaroundTime[1] >= processes[p].burstTime
             /\ processes'[p].waitingTime[1] >= 0
             /\ processes[p].completionTime[1]
                  >= processes[p].arrivalTime + processes[p].burstTime
    ]_vars

\* finalizeMetrics() was called on a complete run in which one process never
\* waited and another, which arrived after the clock had started, did.
C12_Witness ==
  /\ lastOp = "finalizeMetrics"
  /\ AllTerminated
  /\ \E p, q \in Procs :
       /\ processes[p].waitingTime = <<0>>
       /\ processes[q].arrivalTime > 0
       /\ processes[q].waitingTime # NULL
       /\ processes[q].waitingTime[1] > 0

\* ---------------------------------------------------------------- C13
\* The engine after n step() calls on engine e.
RECURSIVE stepTimes(_, _)
stepTimes(e, n) ==
  IF n = 0 \/ isDone(e) THEN e ELSE stepTimes(stepResult(e).eng, n - 1)

\* The state of an engine newly constructed from the same input.
IsFresh ==
  /\ time = 0
  /\ ready = <<>>
  /\ running = 0
  /\ gantt = <<>>
  /\ trace = <<>>
  /\ completedCount = 0
  /\ quantumCounter = 0
  /\ Len(processes) = Len(original)
  /\ \A p \in Procs :
       /\ processes[p].state = "NEW"
       /\ processes[p].arrivalTime = original[p].arrivalTime
       /\ processes[p].burstTime = original[p].burstTime
       /\ processes[p].priority = original[p].priority
       /\ processes[p].remainingTime = processes[p].burstTime
       /\ processes[p].completionTime = NULL
       /\ processes[p].waitingTime = NULL
       /\ processes[p].turnaroundTime = NULL

\* C13: reset(), after any sequence of step() and finalizeMetrics() calls,
\* leaves the state of a newly constructed engine: clock 0, empty ready queue,
\* timeline and trace, no running process, counters 0, every process NEW with
\* remainingTime = burstTime and null completion, waiting and turnaround
\* times; and a run that has reached its end, whatever resets came before it,
\* has the trace and the timeline that the same number of step() calls
\* produce on a new engine (both only grow, so the same holds of every
\* earlier step of the run).
C13_Reset ==
  /\ [][ lastOp' = "reset" => IsFresh' ]_vars
  /\ []((lastOp = "step" /\ AllTerminated /\ edges # {}) =>
          \E replay \in {stepTimes(resetFields(original), time)} :
            /\ trace = replay.trace
            /\ gantt = replay.gantt)

\* reset() was called: the engine holds the three processes of the demo
\* workload, all NEW, at clock 0.
C13_Witness ==
  /\ lastOp = "reset"
  /\ original = DemoWorkload
  /\ time = 0
  /\ \A p \in Procs : processes[p].state = "NEW"

\* ---------------------------------------------------------------- C14
\* getSnapshot(), by a caller that keeps what it returns.  step() returns
\* getSnapshot() as its last statement, so the snapshot a caller keeps from
\* step() is the one this action takes right after Step.
GetSnapshot ==
  /\ lastOp' = "getSnapshot"
  /\ held' = keepSnapshot(Eng)
  /\ edges' = {}
  /\ UNCHANGED <<algorithm, quantum, original, time, ready, running,
                 completedCount, gantt, trace, quantumCounter, processes, mem, paging, pagingInput>>

SnapNext == Step \/ Reset \/ FinalizeMetrics \/ GetSnapshot

\* The scheduler with a caller that keeps snapshots.
SnapSpec == Init /\ [][SnapNext]_vars

\* C14: a snapshot returned by step() or getSnapshot() is a value copy: no
\* later step() changes anything inside it (timeline segments, trace events,
\* ready list, process records).
C14_SnapshotImmutable ==
  [][ /\ (lastOp' = "step" /\ held # NULL) =>
           /\ held' # NULL
           /\ held'.snapshot = held.snapshot
    ]_vars

\* ---------------------------------------------------------------- C15
\* The default of runToEnd's maxTicks parameter.
DefaultMaxTicks == 10000

\* The loop of runToEnd(): the engine it leaves, the value of `guard`, and
\* the process-state assignments made on the way.
RECURSIVE runLoop(_, _, _, _)
runLoop(e, guard, maxTicks, eds) ==
  IF ~isDone(e) /\ guard < maxTicks
    THEN LET r == stepResult(e)
         IN  runLoop(r.eng, guard + 1, maxTicks, eds \cup r.edges)
    ELSE [eng |-> e, guard |-> guard, edges |-> eds]

\* runToEnd(), with the default guard
RunToEnd ==
  /\ lastOp' = "runToEnd"
  /\ \E r \in {runLoop(Eng, 0, DefaultMaxTicks, {})} :
       /\ setEngine([r.eng EXCEPT !.processes = finalizeMetrics(r.eng).processes])
       /\ edges' = r.edges
  /\ held' = aliased(held, gantt')
  /\ UNCHANGED <<algorithm, quantum, original, mem, paging, pagingInput>>

RunNext == Step \/ Reset \/ FinalizeMetrics \/ RunToEnd

\* The engines constructed with the generated workloads and the demo workload.
RunInit ==
  /\ Init
  /\ Len(original) = NumProcs \/ original = DemoWorkload

\* The scheduler with a caller that also runs to the end.
RunSpec == RunInit /\ [][RunNext]_vars

RECURSIVE MaxOf(_)
MaxOf(s) == IF s = <<>> THEN 0 ELSE Max(Head(s), MaxOf(Tail(s)))

\* max(arrivalTime) + sum(burstTime) of the workload
ClockBound ==
  MaxOf([i \in 1..Len(original) |-> original[i].arrivalTime])
    + sum([i \in 1..Len(original) |-> original[i].burstTime])

\* C15: for every workload with integer arrivalTime >= 0 and burstTime >= 1,
\* under each of the five policies and every quantum, the clock never passes
\* max(arrivalTime) + sum(burstTime) and every process is TERMINATED when it
\* gets there; a step() on an unfinished run advances the clock, so repeated
\* step() calls finish the run within that many calls; and runToEnd() returns
\* with every process TERMINATED and completed, its guard (the number of
\* step() calls it made, each of which advanced the clock) below maxTicks.
C15_Termination ==
  /\ [](/\ time <= ClockBound
        /\ time = ClockBound => AllTerminated)
  /\ [][ /\ (lastOp' = "step" /\ ~AllTerminated) => time' = time + 1
         /\ lastOp' = "runToEnd" =>
              /\ \A p \in Procs :
                   /\ processes'[p].state = "TERMINATED"
                   /\ processes'[p].completionTime # NULL
                   /\ processes'[p].completionTime[1] <= ClockBound
              /\ time' <= ClockBound
              /\ time' - time < DefaultMaxTicks
    ]_vars

\* runToEnd() was called in the middle of a run that had seen a preemption
\* and an idle clock tick, and ran it to its end.
C15_Witness ==
  /\ lastOp = "runToEnd"
  /\ AllTerminated
  /\ HasEvent(trace, "PREEMPT")
  /\ HasEvent(trace, "IDLE")
  /\ \E ed \in edges : ed[2] = "READY"
  /\ \A ed \in edges : ed[2] # "NEW"

\* ---------------------------------------------------------------- C16
\* C16: in every snapshot the ready-queue view is in the policy's order:
\* insertion order under FCFS and RR, and under SJF, SRTF and PRIORITY
\* ascending burstTime, remainingTime or priority with ties by earlier
\* arrivalTime, so that its first element is the process the next dispatch
\* would choose.
C16_ReadyPolicyOrder ==
  LET view == getSnapshot(Eng).ready
  IN  /\ [i \in 1..Len(view) |-> view[i].pid]
           = [i \in 1..Len(ready) |->
                processes[sortReady(algorithm, ready, processes)[i]].pid]
      /\ \A i, j \in 1..Len(view) :
           (i < j /\ algorithm \in {"SJF", "SRTF", "PRIORITY"}) =>
             LET ki == CASE algorithm = "SJF" -> view[i].burstTime
                         [] algorithm = "SRTF" -> view[i].remainingTime
                         [] OTHER -> view[i].priority
                 kj == CASE algorithm = "SJF" -> view[j].burstTime
                         [] algorithm = "SRTF" -> view[j].remainingTime
                         [] OTHER -> view[j].priority
             IN  \/ ki < kj
                 \/ ki = kj /\ view[i].arrivalTime <= view[j].arrivalTime

\* ---------------------------------------------------------------- C17
\* Steps of a run that never ends are followed up to this clock.
MaxClock == 6

\* An input process with one of its numeric fields left out.
MalformedProcess ==
  [arrivalTime : 0..MaxArrival, burstTime : 1..MaxBurst]
    \cup [arrivalTime : 0..MaxArrival, priority : {0}]
    \cup [burstTime : 1..MaxBurst, priority : {0}]

\* One or two input processes, at least one of them malformed.
MalformedWorkloads ==
  LET any == MalformedProcess \cup GeneratedProcess("FCFS")
  IN  { <<p>> : p \in MalformedProcess }
        \cup { <<p, q>> : p \in MalformedProcess, q \in any }
        \cup { <<q, p>> : p \in MalformedProcess, q \in any }

\* Engines constructed with malformed input.  The policies are those that
\* never sort: the order Array.prototype.sort leaves when the comparator
\* returns NaN for some pairs is implementation-defined.
MalformedInit ==
  /\ algorithm \in {"FCFS", "RR"}
  /\ quantum \in (IF algorithm = "RR" THEN 1..MaxQuantum ELSE {1})
  /\ original \in MalformedWorkloads
  /\ time = 0
  /\ ready = <<>>
  /\ running = 0
  /\ completedCount = 0
  /\ gantt = <<>>
  /\ trace = <<>>
  /\ quantumCounter = 0
  /\ processes = cloneProcesses(original)
  /\ lastOp = "construct"
  /\ edges = {}
  /\ held = NULL
  /\ mem = NULL
  /\ paging = NULL
  /\ pagingInput = NULL

\* step(), while the clock is below MaxClock
BoundedStep == time < MaxClock /\ Step

MalformedNext == BoundedStep \/ Reset \/ FinalizeMetrics

MalformedSpec == MalformedInit /\ [][MalformedNext]_vars

\* The value the claim gives a field of input process p: its own, or the
\* minimum valid value if it is missing.
Coerced(p, field, least) == IF field \in DOMAIN p THEN p[field] ELSE least

\* max(arrivalTime) + sum(burstTime) of the input so coerced
CoercedClockBound ==
  MaxOf([i \in 1..Len(original) |-> Coerced(original[i], "arrivalTime", 0)])
    + sum([i \in 1..Len(original) |-> Coerced(original[i], "burstTime", 1)])

\* C17: the constructor gives a process whose burstTime, arrivalTime or
\* priority is missing the minimum valid value (burstTime 1, arrivalTime 0,
\* priority 0), so that no step sees an invalid number and the run ends with
\* every process TERMINATED (by the clock max(arrivalTime) + sum(burstTime)).
C17_Coerced ==
  /\ \A p \in Procs :
       /\ processes[p].burstTime = Coerced(original[p], "burstTime", 1)
       /\ processes[p].arrivalTime = Coerced(original[p], "arrivalTime", 0)
       /\ processes[p].priority = Coerced(original[p], "priority", 0)
       /\ processes[p].remainingTime >= 0
       /\ processes[p].remainingTime <= processes[p].burstTime
  /\ time >= CoercedClockBound => AllTerminated

(***************************************************************************)
(* Part 2: MemoryEngine (src/src/components/memory/MemoryEngine.js).       *)
(* The engine is one record, `mem`.  The pid of request i is i (the        *)
(* default "P<i>"); a segment object is its index in this.segments; a      *)
(* processId of 0 stands for null.  Log events keep the fields that carry  *)
(* state; the description strings and the Date.now() timestamps are left   *)
(* out.                                                                    *)
(***************************************************************************)
\* ------------------------------------------------------------------ bounds
\* Generated engines start with 1..MaxHoles holes.
MaxHoles == 2
\* Generated hole sizes are 1..MaxHoleSize.
MaxHoleSize == 4
\* Number of requests of a generated request list.
NumRequests == 2
\* Generated request sizes are 1..MaxRequestSize.
MaxRequestSize == 3
\* Allocation units are 1..MaxAllocationUnit.
MaxAllocationUnit == 2

MemoryAlgorithms == {"FIRST_FIT", "BEST_FIT", "WORST_FIT"}

\* The holes and the requests the memory simulator starts with.
DEFAULT_HOLES == <<100, 500, 200, 300>>

DemoRequests == << [size |-> 24], [size |-> 16], [size |-> 32], [size |-> 8] >>

\* Math.ceil(value / unit) * unit
alignUp(value, unit) == (0 - ((0 - value) \div unit)) * unit

\* Number(req.size) || 1
hydrateRequests(requests) ==
  [i \in 1..Len(requests) |->
     [pid        |-> i,
      size       |-> IF requests[i].size = 0 THEN 1 ELSE requests[i].size,
      status     |-> "PENDING",
      allocation |-> NULL]]

RECURSIVE buildSegments(_, _)
buildSegments(holes, offset) ==
  IF holes = <<>> THEN <<>>
  ELSE << [start |-> offset, size |-> Head(holes), free |-> TRUE,
           processId |-> 0] >>
         \o buildSegments(Tail(holes), offset + Head(holes))

buildInitialSegments(holes) == buildSegments(holes, 0)

\* new MemoryEngine(requests, algorithm, options)
MemoryEngine(requests, alg, options) ==
  [algorithm             |-> alg,
   initialHoles          |-> options.initialHoles,
   memorySize            |-> sum(options.initialHoles),
   allocationUnit        |-> options.allocationUnit,
   requests              |-> hydrateRequests(requests),
   segments              |-> buildInitialSegments(options.initialHoles),
   currentIndex          |-> 0,
   logs                  |-> <<>>,
   internalFragmentation |-> 0,
   lastEvent             |-> NULL]

memIsDone(m) == m.currentIndex >= Len(m.requests)

getMetrics(m) ==
  LET n           == Len(m.segments)
      freeSizes   == [i \in 1..n |-> IF m.segments[i].free
                                       THEN m.segments[i].size ELSE 0]
      allocSizes  == [i \in 1..n |-> IF m.segments[i].free
                                       THEN 0 ELSE m.segments[i].size]
      totalFree   == sum(freeSizes)
      largestHole == MaxOf(freeSizes)
  IN  [totalMemory           |-> m.memorySize,
       allocated             |-> sum(allocSizes),
       free                  |-> totalFree,
       largestHole           |-> largestHole,
       internalFragmentation |-> m.internalFragmentation,
       externalFragmentation |-> IF totalFree - largestHole < 0 THEN 0
                                 ELSE totalFree - largestHole]

\* findCandidates() with > for >=: a hole the request fills exactly does not
\* qualify.
findCandidates_strictlyLarger(m, alignedSize) ==
  SelectSeq(Indices(Len(m.segments)),
            LAMBDA i : m.segments[i].free /\ m.segments[i].size > alignedSize)

\* The free segments of size >= alignedSize, in list order.
findCandidates(m, alignedSize) ==
  SelectSeq(Indices(Len(m.segments)),
            LAMBDA i : m.segments[i].free /\ m.segments[i].size >= alignedSize)

\* candidates.reduce((best, candidate) => ...) for BEST_FIT and WORST_FIT
RECURSIVE reduceHoles(_, _, _, _)
reduceHoles(m, alg, best, candidates) ==
  IF candidates = <<>> THEN best
  ELSE
    LET c == Head(candidates)
        better == IF alg = "BEST_FIT"
                    THEN m.segments[c].size < m.segments[best].size
                    ELSE m.segments[c].size > m.segments[best].size
    IN  reduceHoles(m, alg, IF better THEN c ELSE best, Tail(candidates))

\* BEST_FIT with <= for <: the reduce keeps the last of equally small holes.
RECURSIVE reduceHoles_lastOnTie(_, _, _, _)
reduceHoles_lastOnTie(m, alg, best, candidates) ==
  IF candidates = <<>> THEN best
  ELSE
    LET c == Head(candidates)
        better == IF alg = "BEST_FIT"
                    THEN m.segments[c].size <= m.segments[best].size
                    ELSE m.segments[c].size > m.segments[best].size
    IN  reduceHoles_lastOnTie(m, alg, IF better THEN c ELSE best,
                              Tail(candidates))

\* WORST_FIT with >= for >: the reduce keeps the last of equally large holes.
RECURSIVE reduceHoles_worstLastOnTie(_, _, _, _)
reduceHoles_worstLastOnTie(m, alg, best, candidates) ==
  IF candidates = <<>> THEN best
  ELSE
    LET c == Head(candidates)
        better == IF alg = "BEST_FIT"
                    THEN m.segments[c].size < m.segments[best].size
                    ELSE m.segments[c].size >= m.segments[best].size
    IN  reduceHoles_worstLastOnTie(m, alg, IF better THEN c ELSE best,
                                   Tail(candidates))

\* selectHole() that keeps the last of equally large holes under WORST_FIT.
selectHole_worstFitLastOnTie(m, request) ==
  LET aligned    == alignUp(request.size, m.allocationUnit)
      candidates == findCandidates(m, aligned)
  IN  IF candidates = <<>> THEN [hole |-> 0, alignedSize |-> aligned]
      ELSE [hole |-> IF m.algorithm \in {"BEST_FIT", "WORST_FIT"}
                       THEN reduceHoles_worstLastOnTie(m, m.algorithm,
                                                       Head(candidates),
                                                       Tail(candidates))
                       ELSE Head(candidates),
            alignedSize |-> aligned]

\* selectHole() that keeps the last of equally small holes under BEST_FIT.
selectHole_bestFitLastOnTie(m, request) ==
  LET aligned    == alignUp(request.size, m.allocationUnit)
      candidates == findCandidates(m, aligned)
  IN  IF candidates = <<>> THEN [hole |-> 0, alignedSize |-> aligned]
      ELSE [hole |-> IF m.algorithm \in {"BEST_FIT", "WORST_FIT"}
                       THEN reduceHoles_lastOnTie(m, m.algorithm,
                                                  Head(candidates),
                                                  Tail(candidates))
                       ELSE Head(candidates),
            alignedSize |-> aligned]

\* selectHole() whose FIRST_FIT takes the last candidate.
selectHole_firstFitTakesLast(m, request) ==
  LET aligned    == alignUp(request.size, m.allocationUnit)
      candidates == findCandidates(m, aligned)
  IN  IF candidates = <<>> THEN [hole |-> 0, alignedSize |-> aligned]
      ELSE [hole |-> IF m.algorithm \in {"BEST_FIT", "WORST_FIT"}
                       THEN reduceHoles(m, m.algorithm, Head(candidates),
                                        Tail(candidates))
                       ELSE Last(candidates),
            alignedSize |-> aligned]

\* The chosen hole as an index of this.segments (0: none), and the aligned
\* size.
selectHole(m, request) ==
  LET aligned    == alignUp(request.size, m.allocationUnit)
      candidates == findCandidates(m, aligned)
  IN  IF candidates = <<>> THEN [hole |-> 0, alignedSize |-> aligned]
      ELSE [hole |-> IF m.algorithm \in {"BEST_FIT", "WORST_FIT"}
                       THEN reduceHoles(m, m.algorithm, Head(candidates),
                                        Tail(candidates))
                       ELSE Head(candidates),
            alignedSize |-> aligned]

\* allocateSegment() that counts the unused part of the hole, not of the
\* aligned size, as internal fragmentation.
allocateSegment_fragmentationOfHole(m, r, holeIndex, alignedSize) ==
  LET request   == m.requests[r]
      hole      == m.segments[holeIndex]
      remainder == hole.size - alignedSize
      allocated == [start |-> hole.start, size |-> alignedSize, free |-> FALSE,
                    processId |-> request.pid, requestedSize |-> request.size]
      inserted  == IF remainder > 0
                     THEN << allocated,
                             [start |-> hole.start + alignedSize,
                              size |-> remainder, free |-> TRUE,
                              processId |-> 0] >>
                     ELSE << allocated >>
      event     == [pid |-> request.pid, type |-> "ALLOCATED",
                    holeStart |-> hole.start, size |-> alignedSize]
  IN  [m EXCEPT
         !.segments = SubSeq(@, 1, holeIndex - 1) \o inserted
                        \o SubSeq(@, holeIndex + 1, Len(@)),
         !.internalFragmentation = @ + (hole.size - request.size),
         !.requests[r].status = "ALLOCATED",
         !.requests[r].allocation =
            << [start |-> hole.start, size |-> alignedSize] >>,
         !.logs = Append(@, event),
         !.lastEvent = <<event>>]

\* allocateSegment() with >= for > in the remainder test: an exact fit leaves
\* a free segment of size 0.
allocateSegment_emptyRemainder(m, r, holeIndex, alignedSize) ==
  LET request   == m.requests[r]
      hole      == m.segments[holeIndex]
      remainder == hole.size - alignedSize
      allocated == [start |-> hole.start, size |-> alignedSize, free |-> FALSE,
                    processId |-> request.pid, requestedSize |-> request.size]
      inserted  == IF remainder >= 0
                     THEN << allocated,
                             [start |-> hole.start + alignedSize,
                              size |-> remainder, free |-> TRUE,
                              processId |-> 0] >>
                     ELSE << allocated >>
      event     == [pid |-> request.pid, type |-> "ALLOCATED",
                    holeStart |-> hole.start, size |-> alignedSize]
  IN  [m EXCEPT
         !.segments = SubSeq(@, 1, holeIndex - 1) \o inserted
                        \o SubSeq(@, holeIndex + 1, Len(@)),
         !.internalFragmentation = @ + (alignedSize - request.size),
         !.requests[r].status = "ALLOCATED",
         !.requests[r].allocation =
            << [start |-> hole.start, size |-> alignedSize] >>,
         !.logs = Append(@, event),
         !.lastEvent = <<event>>]

\* allocateSegment(request, hole, alignedSize, holeIndex), the request given
\* by its index r
allocateSegment(m, r, holeIndex, alignedSize) ==
  LET request   == m.requests[r]
      hole      == m.segments[holeIndex]
      remainder == hole.size - alignedSize
      allocated == [start |-> hole.start, size |-> alignedSize, free |-> FALSE,
                    processId |-> request.pid, requestedSize |-> request.size]
      inserted  == IF remainder > 0
                     THEN << allocated,
                             [start |-> hole.start + alignedSize,
                              size |-> remainder, free |-> TRUE,
                              processId |-> 0] >>
                     ELSE << allocated >>
      event     == [pid |-> request.pid, type |-> "ALLOCATED",
                    holeStart |-> hole.start, size |-> alignedSize]
  IN  [m EXCEPT
         !.segments = SubSeq(@, 1, holeIndex - 1) \o inserted
                        \o SubSeq(@, holeIndex + 1, Len(@)),
         !.internalFragmentation = @ + (alignedSize - request.size),
         !.requests[r].status = "ALLOCATED",
         !.requests[r].allocation =
            << [start |-> hole.start, size |-> alignedSize] >>,
         !.logs = Append(@, event),
         !.lastEvent = <<event>>]

\* logFailure() that leaves the request's status as it is.
logFailure_keepsPending(m, r, alignedSize) ==
  LET event == [pid |-> m.requests[r].pid, type |-> "FAILED",
                size |-> alignedSize]
  IN  [m EXCEPT !.requests[r].allocation = NULL,
                !.logs = Append(@, event),
                !.lastEvent = <<event>>]

logFailure(m, r, alignedSize) ==
  LET event == [pid |-> m.requests[r].pid, type |-> "FAILED",
                size |-> alignedSize]
  IN  [m EXCEPT !.requests[r].status = "FAILED",
                !.requests[r].allocation = NULL,
                !.logs = Append(@, event),
                !.lastEvent = <<event>>]

\* step() on an engine: the engine it leaves
memStep(m) ==
  IF memIsDone(m) THEN m
  ELSE
    LET r  == m.currentIndex + 1
        s  == selectHole(m, m.requests[r])
        m1 == IF s.hole # 0 THEN allocateSegment(m, r, s.hole, s.alignedSize)
                            ELSE logFailure(m, r, s.alignedSize)
    IN  [m1 EXCEPT !.currentIndex = @ + 1]

RECURSIVE memRunLoop(_)
memRunLoop(m) == IF memIsDone(m) THEN m ELSE memRunLoop(memStep(m))

\* getSnapshot()
memGetSnapshot(m) ==
  [segments       |-> m.segments,
   requests       |-> m.requests,
   logs           |-> m.logs,
   metrics        |-> getMetrics(m),
   currentRequest |-> IF m.currentIndex < Len(m.requests)
                        THEN << m.requests[m.currentIndex + 1] >>
                        ELSE NULL,
   done           |-> memIsDone(m),
   lastEvent      |-> m.lastEvent]

\* A snapshot in the caller's hands.  The segments and the requests are
\* copied record by record and the log array is copied, but currentRequest
\* is the very object this.requests holds at currentIndex: `request` is its
\* index, 0 if there is none.  The events of the log and lastEvent are
\* shared too, but no code writes to an event once it is logged, and an
\* allocation record is never written to after it is assigned.
memKeepSnapshot(m) ==
  [snapshot |-> memGetSnapshot(m),
   request  |-> IF m.currentIndex < Len(m.requests)
                  THEN m.currentIndex + 1 ELSE 0]

\* The kept snapshot once the engine has become m: what step() writes to
\* the request object shows in the snapshot's currentRequest.
memAliased(h, m) ==
  IF h = NULL THEN NULL
  ELSE IF h.request # 0
         THEN [h EXCEPT !.snapshot.currentRequest = << m.requests[h.request] >>]
         ELSE h

\* ------------------------------------------------------------------ machine
GeneratedHoles ==
  UNION { [1..n -> 1..MaxHoleSize] : n \in 1..MaxHoles }

GeneratedRequests == [1..NumRequests -> [size : 1..MaxRequestSize]]

\* The engines constructed: every generated request list on every generated
\* hole list with every allocation unit, and the demo (allocationUnit left
\* to its default 1).
MemoryEngines ==
  { MemoryEngine(reqs, alg, [initialHoles |-> holes, allocationUnit |-> unit]) :
      reqs \in GeneratedRequests, alg \in MemoryAlgorithms,
      holes \in GeneratedHoles, unit \in 1..MaxAllocationUnit }
    \cup { MemoryEngine(DemoRequests, alg,
                        [initialHoles |-> DEFAULT_HOLES, allocationUnit |-> 1]) :
             alg \in MemoryAlgorithms }

schedulerVars ==
  <<algorithm, quantum, original, time, ready, running, completedCount,
    gantt, trace, quantumCounter, processes, edges, held>>

\* The scheduler's variables without the snapshot a caller keeps.
schedulerFields ==
  <<algorithm, quantum, original, time, ready, running, completedCount,
    gantt, trace, quantumCounter, processes, edges>>

\* No scheduler is constructed.
NoScheduler ==
  /\ algorithm = "FCFS"
  /\ quantum = 1
  /\ original = <<>>
  /\ time = 0
  /\ ready = <<>>
  /\ running = 0
  /\ completedCount = 0
  /\ gantt = <<>>
  /\ trace = <<>>
  /\ quantumCounter = 0
  /\ processes = <<>>
  /\ edges = {}
  /\ held = NULL

MemInit ==
  /\ NoScheduler
  /\ lastOp = "construct"
  /\ mem \in MemoryEngines
  /\ paging = NULL
  /\ pagingInput = NULL

\* step()
MemStep ==
  /\ lastOp' = "step"
  /\ mem' = memStep(mem)
  /\ held' = memAliased(held, mem')
  /\ UNCHANGED <<schedulerFields, paging, pagingInput>>

\* runToEnd()
MemRunToEnd ==
  /\ lastOp' = "runToEnd"
  /\ mem' = memRunLoop(mem)
  /\ held' = memAliased(held, mem')
  /\ UNCHANGED <<schedulerFields, paging, pagingInput>>

MemNext == MemStep \/ MemRunToEnd

MemSpec == MemInit /\ [][MemNext]_vars

\* getSnapshot(), the caller keeping what it returns
MemGetSnapshot ==
  /\ lastOp' = "getSnapshot"
  /\ held' = memKeepSnapshot(mem)
  /\ UNCHANGED <<schedulerFields, mem, paging, pagingInput>>

MemSnapNext == MemStep \/ MemRunToEnd \/ MemGetSnapshot

\* The memory engine with a caller that keeps snapshots.
MemSnapSpec == MemInit /\ [][MemSnapNext]_vars

\* ------------------------------------------------------- what the claims use
\* The request a step() call is about to serve.
CurrentRequest == mem.requests[mem.currentIndex + 1]

\* The current call is a step() that served a request.
MemStepped == lastOp' = "step" /\ mem'.currentIndex = mem.currentIndex + 1

\* The free segments that can hold the current request.
Fitting ==
  { i \in DOMAIN mem.segments :
      /\ mem.segments[i].free
      /\ mem.segments[i].size
           >= alignUp(CurrentRequest.size, mem.allocationUnit) }

\* The current call placed the current request at the start of segment h:
\* the list is the old one with h replaced by the allocated segment and, if h
\* is larger, the free remainder.
PlacedIn(h) ==
  LET aligned == alignUp(CurrentRequest.size, mem.allocationUnit)
      r       == mem.currentIndex + 1
      hole    == mem.segments[h]
      k       == IF hole.size > aligned THEN 1 ELSE 0
  IN  /\ mem'.requests[r].status = "ALLOCATED"
      /\ mem'.requests[r].allocation = << [start |-> hole.start, size |-> aligned] >>
      /\ Len(mem'.segments) = Len(mem.segments) + k
      /\ \A i \in 1..(h - 1) : mem'.segments[i] = mem.segments[i]
      /\ \A i \in (h + 1)..Len(mem.segments) :
           mem'.segments[i + k] = mem.segments[i]
      /\ ~mem'.segments[h].free
      /\ mem'.segments[h].start = hole.start
      /\ mem'.segments[h].size = aligned
      /\ mem'.segments[h].processId = CurrentRequest.pid
      /\ k = 1 =>
           /\ mem'.segments[h + 1].free
           /\ mem'.segments[h + 1].start = hole.start + aligned
           /\ mem'.segments[h + 1].size = hole.size - aligned

\* ---------------------------------------------------------------- C18
\* C18: for request sizes >= 1 and allocationUnit >= 1, after any sequence of
\* step() calls the segments, in list order, partition [0, memorySize): the
\* first starts at 0, each starts where the one before it ends, every size is
\* > 0 and the sizes add up to memorySize (allocated + free = totalMemory in
\* the metrics); and free segments are never merged: a call removes no
\* segment boundary, and every free segment it leaves lies within one
\* segment that was free before it.
C18_Partition ==
  /\ [](LET segs == mem.segments
        IN  /\ segs # <<>>
            /\ segs[1].start = 0
            /\ \A i \in DOMAIN segs :
                 /\ segs[i].size > 0
                 /\ i < Len(segs) =>
                      segs[i + 1].start = segs[i].start + segs[i].size
            /\ sum([i \in DOMAIN segs |-> segs[i].size]) = mem.memorySize
            /\ \E metrics \in {getMetrics(mem)} :
                 /\ metrics.allocated + metrics.free = metrics.totalMemory
                 /\ metrics.totalMemory = sum(mem.initialHoles))
  /\ [][ /\ { mem.segments[i].start : i \in DOMAIN mem.segments }
              \subseteq { mem'.segments[i].start : i \in DOMAIN mem'.segments }
         /\ \A j \in DOMAIN mem'.segments :
              mem'.segments[j].free =>
                \E i \in DOMAIN mem.segments :
                  /\ mem.segments[i].free
                  /\ mem.segments[i].start <= mem'.segments[j].start
                  /\ mem'.segments[j].start + mem'.segments[j].size
                       = mem.segments[i].start + mem.segments[i].size
    ]_vars

\* All requests are served and allocated, holes were split, and the free
\* remainder of a split lies side by side with another free segment.
C18_Witness ==
  /\ mem # NULL
  /\ memIsDone(mem)
  /\ \A r \in DOMAIN mem.requests : mem.requests[r].status = "ALLOCATED"
  /\ Len(mem.segments) > Len(mem.initialHoles)
  /\ \E i \in DOMAIN mem.segments :
       /\ i < Len(mem.segments)
       /\ mem.segments[i].free /\ mem.segments[i + 1].free

\* ---------------------------------------------------------------- C19
\* C19: under BEST_FIT a step allocates the request in the smallest free
\* segment whose size is >= the aligned request size, the lowest-address one
\* among equally small ones (and fails the request if there is none); for
\* holes [100,500,200,300] and first request P1 = 24 the allocation is at
\* the start of the 100-unit hole and leaves a free remainder of 76.
C19_BestFit ==
  [][ /\ (mem.algorithm = "BEST_FIT" /\ MemStepped) =>
           /\ IF Fitting = {}
                THEN mem'.requests[mem.currentIndex + 1].status = "FAILED"
                ELSE \E h \in Fitting :
                       /\ \A i \in Fitting :
                            \/ mem.segments[h].size < mem.segments[i].size
                            \/ /\ mem.segments[h].size = mem.segments[i].size
                               /\ mem.segments[h].start <= mem.segments[i].start
                       /\ PlacedIn(h)
           /\ (mem.initialHoles = DEFAULT_HOLES /\ mem.currentIndex = 0
                 /\ CurrentRequest.size = 24 /\ mem.allocationUnit = 1) =>
                /\ mem'.segments[1] =
                     [start |-> 0, size |-> 24, free |-> FALSE,
                      processId |-> 1, requestedSize |-> 24]
                /\ mem'.segments[2] =
                     [start |-> 24, size |-> 76, free |-> TRUE, processId |-> 0]
                /\ mem'.segments[3] =
                     [start |-> 100, size |-> 500, free |-> TRUE, processId |-> 0]
    ]_vars

\* Under BEST_FIT the first request of the demo, P1 = 24, has been placed in
\* the 100-unit hole.
C19_Witness ==
  /\ mem # NULL
  /\ mem.algorithm = "BEST_FIT"
  /\ mem.initialHoles = DEFAULT_HOLES
  /\ lastOp = "step"
  /\ mem.currentIndex = 1
  /\ mem.requests[1].size = 24
  /\ mem.requests[1].allocation = << [start |-> 0, size |-> 24] >>

\* ---------------------------------------------------------------- C20
\* C20: under FIRST_FIT a step allocates the request in the lowest-address
\* free segment whose size is >= the aligned request size (and fails the
\* request if there is none), whatever allocations and splits came before.
C20_FirstFit ==
  [][ /\ (mem.algorithm = "FIRST_FIT" /\ MemStepped) =>
           IF Fitting = {}
             THEN mem'.requests[mem.currentIndex + 1].status = "FAILED"
             ELSE \E h \in Fitting :
                    /\ \A i \in Fitting :
                         mem.segments[h].start <= mem.segments[i].start
                    /\ PlacedIn(h)
    ]_vars

\* Under FIRST_FIT the second request was placed in the free remainder of
\* the hole that the first request had split, although a free segment at a
\* higher address could have held it too.
C20_Witness ==
  /\ mem # NULL
  /\ mem.algorithm = "FIRST_FIT"
  /\ lastOp = "step"
  /\ mem.currentIndex = 2
  /\ \E j, l \in DOMAIN mem.segments :
       /\ 1 < j /\ j < l
       /\ mem.segments[j - 1].processId = 1
       /\ mem.segments[j].processId = 2
       /\ mem.segments[l].free
       /\ mem.segments[l].size >= mem.segments[j].size
       /\ mem.segments[l].start > mem.segments[j].start + mem.segments[j].size

\* ---------------------------------------------------------------- C21
\* C21: under WORST_FIT a step allocates the request in the largest free
\* segment whose size is >= the aligned request size, the lowest-address one
\* among equally large ones (and fails the request if there is none).
C21_WorstFit ==
  [][ /\ (mem.algorithm = "WORST_FIT" /\ MemStepped) =>
           IF Fitting = {}
             THEN mem'.requests[mem.currentIndex + 1].status = "FAILED"
             ELSE \E h \in Fitting :
                    /\ \A i \in Fitting :
                         \/ mem.segments[h].size > mem.segments[i].size
                         \/ /\ mem.segments[h].size = mem.segments[i].size
                            /\ mem.segments[h].start <= mem.segments[i].start
                    /\ PlacedIn(h)
    ]_vars

\* Under WORST_FIT the first request was placed in the first of two equally
\* large holes, which it split.
C21_Witness ==
  /\ mem # NULL
  /\ mem.algorithm = "WORST_FIT"
  /\ lastOp = "step"
  /\ mem.currentIndex = 1
  /\ Len(mem.segments) = 3
  /\ mem.segments[1].processId = 1
  /\ mem.segments[2].free
  /\ mem.segments[3].free
  /\ mem.segments[3].size = mem.segments[1].size + mem.segments[2].size

\* ---------------------------------------------------------------- C22
\* C22: a request is marked FAILED exactly when no free segment has size >=
\* its aligned size when it is processed; a failing step leaves the segment
\* list and the internal-fragmentation total unchanged, appends one FAILED
\* log entry and advances the request index by one, and the requests after
\* it are still processed.
C22_Failure ==
  [][ /\ MemStepped =>
           LET r == mem.currentIndex + 1
           IN  /\ mem'.requests[r].status = "FAILED" <=> Fitting = {}
               /\ mem'.requests[r].status = "FAILED" =>
                    /\ mem'.segments = mem.segments
                    /\ mem'.internalFragmentation = mem.internalFragmentation
                    /\ Len(mem'.logs) = Len(mem.logs) + 1
                    /\ SubSeq(mem'.logs, 1, Len(mem.logs)) = mem.logs
                    /\ Last(mem'.logs).type = "FAILED"
                    /\ Last(mem'.logs).pid = mem.requests[r].pid
                    /\ mem'.lastEvent = << Last(mem'.logs) >>
                    /\ mem'.requests[r].allocation = NULL
      /\ (lastOp' = "step" /\ ~memIsDone(mem)) =>
           mem'.currentIndex = mem.currentIndex + 1
    ]_vars

\* A request was ALLOCATED by a step after an earlier, larger request had
\* FAILED.
C22_Witness ==
  /\ mem # NULL
  /\ lastOp = "step"
  /\ mem.currentIndex = 2
  /\ mem.requests[1].status = "FAILED"
  /\ mem.requests[2].status = "ALLOCATED"
  /\ mem.requests[2].size < mem.requests[1].size
  /\ Len(mem.logs) = 2

\* ---------------------------------------------------------------- C23
\* C23: a step() on an engine that is not done processes the request at the
\* current index and no other; a request goes from PENDING to ALLOCATED or
\* FAILED once and then never changes, so request i (counted from 0) is
\* non-PENDING iff i < currentIndex; an ALLOCATED request has an allocation,
\* a FAILED or PENDING one has none; after runToEnd() no request is PENDING.
C23_RequestStatus ==
  /\ [](\A i \in DOMAIN mem.requests :
          /\ mem.requests[i].status \in {"PENDING", "ALLOCATED", "FAILED"}
          /\ mem.requests[i].status # "PENDING" <=> i - 1 < mem.currentIndex
          /\ mem.requests[i].status = "ALLOCATED"
               <=> mem.requests[i].allocation # NULL)
  /\ [][ /\ \A i \in DOMAIN mem.requests :
              /\ mem.requests[i].status # "PENDING"
                   => mem'.requests[i] = mem.requests[i]
              /\ (lastOp' = "step" /\ i # mem.currentIndex + 1)
                   => mem'.requests[i] = mem.requests[i]
              /\ (lastOp' = "step" /\ i = mem.currentIndex + 1)
                   => mem'.requests[i].status # "PENDING"
         /\ lastOp' = "runToEnd" =>
              \A i \in DOMAIN mem.requests : mem'.requests[i].status # "PENDING"
    ]_vars

\* After one step the first request is FAILED and the second still PENDING.
C23_Witness ==
  /\ mem # NULL
  /\ lastOp = "step"
  /\ mem.currentIndex = 1
  /\ mem.requests[1].status = "FAILED"
  /\ mem.requests[2].status = "PENDING"

\* ---------------------------------------------------------------- C24
\* C24: the internalFragmentation total is the sum, over the ALLOCATED
\* requests, of aligned size - requested size, the aligned size being the
\* request size rounded up to a multiple of allocationUnit: whatever hole was
\* chosen, nothing for a FAILED request, and 0 whenever allocationUnit = 1.
C24_InternalFragmentation ==
  /\ mem.internalFragmentation =
       sum([i \in DOMAIN mem.requests |->
              IF mem.requests[i].status = "ALLOCATED"
                THEN mem.requests[i].allocation[1].size - mem.requests[i].size
                ELSE 0])
  /\ \A i \in DOMAIN mem.requests :
       mem.requests[i].status = "ALLOCATED" =>
         LET a == mem.requests[i].allocation[1].size
         IN  /\ a % mem.allocationUnit = 0
             /\ a >= mem.requests[i].size
             /\ a - mem.requests[i].size < mem.allocationUnit
  /\ mem.allocationUnit = 1 => mem.internalFragmentation = 0

\* With allocationUnit 2, a request of odd size was allocated in a hole
\* larger than its aligned size and another request FAILED: the total is 1.
C24_Witness ==
  /\ mem # NULL
  /\ mem.allocationUnit = 2
  /\ memIsDone(mem)
  /\ mem.internalFragmentation = 1
  /\ \E i, j \in DOMAIN mem.requests :
       /\ mem.requests[i].status = "FAILED"
       /\ mem.requests[j].status = "ALLOCATED"
       /\ \E k \in DOMAIN mem.segments :
            /\ k < Len(mem.segments)
            /\ mem.segments[k].processId = j
            /\ mem.segments[k + 1].free
            /\ mem.segments[k + 1].start > 0

(***************************************************************************)
(* Part 3: PagingEngine (src/components/memory/PagingEngine.js).            *)
(*                                                                         *)
(* The engine is one record, `paging`.  The pid of process i is i (the     *)
(* source names it P<i>), frame f of the source is frames[f + 1], page n   *)
(* of a process is entry n + 1 of its page table, and a null frame, page   *)
(* or table entry is NULL, a present one the one-element sequence <<v>>.   *)
(* A frame's processId is 0 while the frame is free.  lastAccessed is the  *)
(* Map of the source: a function whose domain is the set of keys           *)
(* <<pid, page>> it holds.  Field `now` is the value Date.now() returned   *)
(* last: the wall clock never runs backwards, and between two calls it     *)
(* either stays in the same millisecond or moves on.                       *)
(***************************************************************************)

\* Length of the generated reference strings.
RefLength == 5

\* Number of pages of the generated process.
PageCount == 4

\* Largest frameCount option of the generated engines.
MaxFrameCount == 3

\* Number of times the wall clock moves on during one run.
MaxClockTicks == 1

PagingAlgorithms == {"FIFO", "LRU", "OPTIMAL"}

MAX_LOGS == 12

Infinity == 1000000

\* A reference string handed to the constructor is an array of page numbers
\* or a text of numbers separated by commas or blanks.  A text is given by
\* the values Number() yields for its pieces, NaN for a piece that is no
\* number; an entry of an array that is no number is NaN as well.
ArrayOf(items) == [isArray |-> TRUE, items |-> items]

TextOf(items) == [isArray |-> FALSE, items |-> items]

\* The demonstration processes of the simulator.
DemoPagingProcesses ==
  << [totalPages |-> 4, referenceString |-> TextOf(<<0, 1, 2, 3, 0, 1>>)],
     [totalPages |-> 3, referenceString |-> TextOf(<<0, 2, 1, 0>>)],
     [totalPages |-> 5, referenceString |-> TextOf(<<1, 4, 2, 3, 1>>)] >>

clamp(value, min, max) ==
  LET atLeast == IF value > min THEN value ELSE min
  IN  IF atLeast < max THEN atLeast ELSE max

\* _parseReferenceString()
parseReferenceString(value, totalPages) ==
  IF value.isArray /\ value.items # <<>>
    THEN [ i \in DOMAIN value.items |->
             clamp(IF value.items[i] = NaN THEN 0 ELSE value.items[i],
                   0, totalPages - 1) ]
    ELSE LET numbers == SelectSeq(value.items, LAMBDA item : item # NaN)
             normalized == [ i \in DOMAIN numbers |->
                               clamp(numbers[i], 0, totalPages - 1) ]
         IN  IF normalized # <<>> THEN normalized ELSE <<0>>

\* _normalizeProcesses()
normalizeProcesses(procs) ==
  IF procs = <<>>
    THEN << [pid |-> 1, totalPages |-> 4, referenceString |-> <<0>>] >>
    ELSE [ index \in DOMAIN procs |->
             LET totalPages == IF procs[index].totalPages > 1
                                 THEN procs[index].totalPages ELSE 1
             IN  [ pid |-> index,
                   totalPages |-> totalPages,
                   referenceString |->
                     parseReferenceString(procs[index].referenceString,
                                          totalPages) ] ]

\* _buildPageTables()
buildPageTables(procs) ==
  [ pid \in DOMAIN procs |-> [ page \in 1 .. procs[pid].totalPages |-> NULL ] ]

\* The loops of _buildReferenceQueue() nested the other way round: every
\* reference of a process before the first of the next.
RECURSIVE referenceQueueFrom_processByProcess(_, _, _)
referenceQueueFrom_processByProcess(procs, maxLength, k) ==
  IF k >= maxLength * Len(procs)
    THEN <<>>
    ELSE LET step == (k % maxLength) + 1
             process == procs[(k \div maxLength) + 1]
         IN  ( IF step <= Len(process.referenceString)
                 THEN << [ pid |-> process.pid,
                           page |-> process.referenceString[step] ] >>
                 ELSE <<>> )
             \o referenceQueueFrom_processByProcess(procs, maxLength, k + 1)

\* The loops of _buildReferenceQueue(): k counts the pairs (step, process)
\* in the order the loops visit them.
RECURSIVE referenceQueueFrom(_, _, _)
referenceQueueFrom(procs, maxLength, k) ==
  IF k >= maxLength * Len(procs)
    THEN <<>>
    ELSE LET step == (k \div Len(procs)) + 1
             process == procs[(k % Len(procs)) + 1]
         IN  ( IF step <= Len(process.referenceString)
                 THEN << [ pid |-> process.pid,
                           page |-> process.referenceString[step] ] >>
                 ELSE <<>> )
             \o referenceQueueFrom(procs, maxLength, k + 1)

\* _buildReferenceQueue()
buildReferenceQueue(procs) ==
  LET maxLength == MaxOf([ i \in DOMAIN procs |->
                             Len(procs[i].referenceString) ])
      queue == referenceQueueFrom(procs, maxLength, 0)
  IN  IF queue = <<>>
        THEN << [ pid |-> procs[1].pid, page |-> 0 ] >>
        ELSE queue

\* new PagingEngine(procs, alg, options); options.frameCount = 0 stands for
\* an absent option as well.
PagingEngine(procs, alg, options) ==
  LET frameCount == LET n == IF options.frameCount = 0
                               THEN 6 ELSE options.frameCount
                    IN  IF n > 3 THEN n ELSE 3
      normalized == normalizeProcesses(procs)
  IN  [ algorithm      |-> alg,
        frameCount     |-> frameCount,
        frames         |-> [ index \in 1 .. frameCount |->
                               [ frameId   |-> index - 1,
                                 isFree    |-> TRUE,
                                 pageId    |-> NULL,
                                 processId |-> 0 ] ],
        processes      |-> normalized,
        pageTables     |-> buildPageTables(normalized),
        referenceQueue |-> buildReferenceQueue(normalized),
        currentIndex   |-> 0,
        logs           |-> <<>>,
        pageFaults     |-> 0,
        pageHits       |-> 0,
        fifoQueue      |-> <<>>,
        lastAccessed   |-> <<>>,
        now            |-> 0 ]

\* isDone()
pagingIsDone(p) == p.currentIndex >= Len(p.referenceQueue)

\* Math.round(numerator / denominator * 100)
roundPercent(numerator, denominator) ==
  ((200 * numerator) + denominator) \div (2 * denominator)

\* getMetrics()
pagingMetrics(p) ==
  LET totalReferences == IF p.currentIndex < Len(p.referenceQueue)
                           THEN p.currentIndex ELSE Len(p.referenceQueue)
  IN  [ pageFaults      |-> p.pageFaults,
        pageHits        |-> p.pageHits,
        totalReferences |-> totalReferences,
        pageFaultRate   |-> IF totalReferences # 0
                              THEN roundPercent(p.pageFaults, totalReferences)
                              ELSE 0,
        framesUsed      |-> Cardinality({ i \in DOMAIN p.frames :
                                            ~p.frames[i].isFree }),
        frameCount      |-> p.frameCount ]

\* _log(): the newest entry first, at most MAX_LOGS entries.
pagingLog(p, type, pid, page, frame) ==
  LET logs == << [ type |-> type, pid |-> pid, page |-> page,
                   frame |-> frame ] >> \o p.logs
  IN  [ p EXCEPT !.logs = IF Len(logs) > MAX_LOGS THEN Front(logs) ELSE logs ]

\* _markAccessed(frames[frameId]) at wall-clock time t.
markAccessed(p, frameId, t) ==
  LET frame == p.frames[frameId + 1]
  IN  IF frame.isFree
        THEN p
        ELSE [ p EXCEPT !.lastAccessed =
                 [ key \in DOMAIN p.lastAccessed
                             \cup {<<frame.processId, frame.pageId[1]>>} |->
                     IF key = <<frame.processId, frame.pageId[1]>>
                       THEN t ELSE p.lastAccessed[key] ] ]

\* _findFreeFrame() that finds no frame once a page is resident.
findFreeFrame_noneOnceResident(p) ==
  IF \A i \in DOMAIN p.frames : p.frames[i].isFree
    THEN << p.frames[1].frameId >>
    ELSE NULL

\* _findFreeFrame(): the frameId of the first free frame, NULL if none.
findFreeFrame(p) ==
  IF \E i \in DOMAIN p.frames : p.frames[i].isFree
    THEN << p.frames[CHOOSE i \in DOMAIN p.frames :
                       /\ p.frames[i].isFree
                       /\ \A j \in 1 .. i - 1 : ~p.frames[j].isFree].frameId >>
    ELSE NULL

\* _evictFrame(frameId), leaving the page table entry of the evicted page.
evictFrame_keepsPageTableEntry(p, frameId) ==
  LET frame == p.frames[frameId + 1]
  IN  IF frame.isFree
        THEN p
        ELSE pagingLog(
               [ p EXCEPT
                   !.lastAccessed =
                     [ key \in DOMAIN p.lastAccessed
                                 \ {<<frame.processId, frame.pageId[1]>>} |->
                         p.lastAccessed[key] ],
                   !.fifoQueue = SelectSeq(p.fifoQueue,
                                           LAMBDA item : item.frameId # frameId),
                   !.frames[frameId + 1] =
                     [ frameId |-> frameId, isFree |-> TRUE,
                       pageId |-> NULL, processId |-> 0 ] ],
               "evict", frame.processId, frame.pageId[1], <<frameId>>)

\* _evictFrame(frameId)
evictFrame(p, frameId) ==
  LET frame == p.frames[frameId + 1]
  IN  IF frame.isFree
        THEN p
        ELSE pagingLog(
               [ p EXCEPT
                   !.pageTables[frame.processId][frame.pageId[1] + 1] = NULL,
                   !.lastAccessed =
                     [ key \in DOMAIN p.lastAccessed
                                 \ {<<frame.processId, frame.pageId[1]>>} |->
                         p.lastAccessed[key] ],
                   !.fifoQueue = SelectSeq(p.fifoQueue,
                                           LAMBDA item : item.frameId # frameId),
                   !.frames[frameId + 1] =
                     [ frameId |-> frameId, isFree |-> TRUE,
                       pageId |-> NULL, processId |-> 0 ] ],
               "evict", frame.processId, frame.pageId[1], <<frameId>>)

\* _loadPage(pid, page, frameId) at wall-clock time t.
loadPage(p, pid, page, frameId, t) ==
  LET loaded == markAccessed(
                  [ p EXCEPT
                      !.frames[frameId + 1] =
                        [ frameId |-> frameId, isFree |-> FALSE,
                          pageId |-> <<page>>, processId |-> pid ],
                      !.pageTables[pid][page + 1] = <<frameId>> ],
                  frameId, t)
      queued == IF p.algorithm = "FIFO"
                  THEN [ loaded EXCEPT !.fifoQueue =
                           Append(@, [ frameId |-> frameId, pid |-> pid,
                                       page |-> page ]) ]
                  ELSE loaded
  IN  pagingLog(queued, "load", pid, page, <<frameId>>)

\* _nextUseIndex(pid, page, startIndex) scanning the stream from its start.
nextUseIndex_fromStart(p, pid, page, startIndex) ==
  LET uses == { idx \in 0 .. Len(p.referenceQueue) - 1 :
                  /\ p.referenceQueue[idx + 1].pid = pid
                  /\ p.referenceQueue[idx + 1].page = page }
  IN  IF uses = {} THEN -1
      ELSE CHOOSE idx \in uses : \A other \in uses : idx <= other

\* _nextUseIndex(pid, page, startIndex); indexes count from 0 as in the
\* source.
nextUseIndex(p, pid, page, startIndex) ==
  LET uses == { idx \in startIndex .. Len(p.referenceQueue) - 1 :
                  /\ p.referenceQueue[idx + 1].pid = pid
                  /\ p.referenceQueue[idx + 1].page = page }
  IN  IF uses = {} THEN -1
      ELSE CHOOSE idx \in uses : \A other \in uses : idx <= other

\* The frames that hold a page, in frame order.
occupiedFrames(p) == SelectSeq(p.frames, LAMBDA frame : ~frame.isFree)

\* The forEach loop of the LRU branch of _selectVictimFrame(), from entry k
\* of occupied on.
RECURSIVE lruScan(_, _, _, _, _)
lruScan(p, occupied, k, oldest, victim) ==
  IF k > Len(occupied)
    THEN victim
    ELSE LET key == <<occupied[k].processId, occupied[k].pageId[1]>>
             lastUsed == IF key \in DOMAIN p.lastAccessed
                           THEN p.lastAccessed[key] ELSE 0
         IN  IF lastUsed < oldest
               THEN lruScan(p, occupied, k + 1, lastUsed, occupied[k])
               ELSE lruScan(p, occupied, k + 1, oldest, victim)

\* The for loop of the OPTIMAL branch without the early return for a page
\* that is never used again.
RECURSIVE optimalScan_skipsUnused(_, _, _, _, _, _)
optimalScan_skipsUnused(p, occupied, startIndex, k, furthestNextUse, victim) ==
  IF k > Len(occupied)
    THEN victim
    ELSE LET nextUse == nextUseIndex(p, occupied[k].processId,
                                     occupied[k].pageId[1], startIndex)
         IN  IF nextUse > furthestNextUse
               THEN optimalScan_skipsUnused(p, occupied, startIndex, k + 1,
                                            nextUse, occupied[k])
               ELSE optimalScan_skipsUnused(p, occupied, startIndex, k + 1,
                                            furthestNextUse, victim)

\* The for loop of the OPTIMAL branch of _selectVictimFrame(), from entry k
\* of occupied on.
RECURSIVE optimalScan(_, _, _, _, _, _)
optimalScan(p, occupied, startIndex, k, furthestNextUse, victim) ==
  IF k > Len(occupied)
    THEN victim
    ELSE LET nextUse == nextUseIndex(p, occupied[k].processId,
                                     occupied[k].pageId[1], startIndex)
         IN  IF nextUse = -1
               THEN occupied[k]
               ELSE IF nextUse > furthestNextUse
                 THEN optimalScan(p, occupied, startIndex, k + 1, nextUse,
                                  occupied[k])
                 ELSE optimalScan(p, occupied, startIndex, k + 1,
                                  furthestNextUse, victim)

\* _selectVictimFrame(startIndex) without the load-order queue of FIFO.
selectVictimFrame_fifoIgnoresQueue(p, startIndex) ==
  LET occupied == occupiedFrames(p)
  IN  [ frameId |->
          IF occupied = <<>> THEN p.frames[1].frameId
          ELSE IF p.algorithm = "LRU"
            THEN lruScan(p, occupied, 1, Infinity, occupied[1]).frameId
          ELSE IF p.algorithm = "OPTIMAL"
            THEN optimalScan(p, occupied, startIndex, 1, -1,
                             occupied[1]).frameId
          ELSE occupied[1].frameId,
        fifoQueue |-> p.fifoQueue ]

\* _selectVictimFrame(startIndex): the frameId of the victim and the FIFO
\* queue the call leaves behind.
selectVictimFrame(p, startIndex) ==
  LET occupied == occupiedFrames(p)
  IN  IF p.algorithm = "FIFO" /\ p.fifoQueue # <<>>
        THEN [ frameId |-> Head(p.fifoQueue).frameId,
               fifoQueue |-> Tail(p.fifoQueue) ]
        ELSE [ frameId |->
                 IF occupied = <<>> THEN p.frames[1].frameId
                 ELSE IF p.algorithm = "LRU"
                   THEN lruScan(p, occupied, 1, Infinity, occupied[1]).frameId
                 ELSE IF p.algorithm = "OPTIMAL"
                   THEN optimalScan(p, occupied, startIndex, 1, -1,
                                    occupied[1]).frameId
                 ELSE occupied[1].frameId,
               fifoQueue |-> p.fifoQueue ]

\* step(), testing the cached frame for truthiness: frame 0 counts as no
\* frame.
pagingStep_truthyCachedFrame(p, t) ==
  IF pagingIsDone(p)
    THEN p
    ELSE
      LET reference == p.referenceQueue[p.currentIndex + 1]
          pid == reference.pid
          page == reference.page
          advanced == [ p EXCEPT !.currentIndex = @ + 1, !.now = t ]
          cachedFrame == p.pageTables[pid][page + 1]
      IN  IF cachedFrame # NULL /\ cachedFrame # <<0>>
            THEN markAccessed(
                   pagingLog([ advanced EXCEPT !.pageHits = @ + 1 ],
                             "hit", pid, page, cachedFrame),
                   cachedFrame[1], t)
            ELSE
              LET faulted == pagingLog([ advanced EXCEPT !.pageFaults = @ + 1 ],
                                       "fault", pid, page, NULL)
                  free == findFreeFrame(faulted)
              IN  IF free # NULL
                    THEN loadPage(faulted, pid, page, free[1], t)
                    ELSE
                      LET selected == selectVictimFrame(faulted,
                                                        faulted.currentIndex)
                      IN  loadPage(
                            evictFrame([ faulted EXCEPT
                                           !.fifoQueue = selected.fifoQueue ],
                                       selected.frameId),
                            pid, page, selected.frameId, t)

\* step(), every Date.now() of the call returning t.
pagingStep(p, t) ==
  IF pagingIsDone(p)
    THEN p
    ELSE
      LET reference == p.referenceQueue[p.currentIndex + 1]
          pid == reference.pid
          page == reference.page
          advanced == [ p EXCEPT !.currentIndex = @ + 1, !.now = t ]
          cachedFrame == p.pageTables[pid][page + 1]
      IN  IF cachedFrame # NULL
            THEN markAccessed(
                   pagingLog([ advanced EXCEPT !.pageHits = @ + 1 ],
                             "hit", pid, page, cachedFrame),
                   cachedFrame[1], t)
            ELSE
              LET faulted == pagingLog([ advanced EXCEPT !.pageFaults = @ + 1 ],
                                       "fault", pid, page, NULL)
                  free == findFreeFrame(faulted)
              IN  IF free # NULL
                    THEN loadPage(faulted, pid, page, free[1], t)
                    ELSE
                      LET selected == selectVictimFrame(faulted,
                                                        faulted.currentIndex)
                      IN  loadPage(
                            evictFrame([ faulted EXCEPT
                                           !.fifoQueue = selected.fifoQueue ],
                                       selected.frameId),
                            pid, page, selected.frameId, t)

\* The values Date.now() can return next.
Clock(p) ==
  {p.now} \cup (IF p.now < MaxClockTicks THEN {p.now + 1} ELSE {})

\* The engines the loop of runToEnd() can leave behind: every step() of the
\* loop reads the wall clock anew.
RECURSIVE pagingRunLoop(_)
pagingRunLoop(p) ==
  IF pagingIsDone(p)
    THEN {p}
    ELSE UNION { pagingRunLoop(pagingStep(p, t)) : t \in Clock(p) }

\* ---------------------------------------------------------------- machine
\* Reference strings that name their pages in the order of first use.
GeneratedReferenceStrings ==
  { s \in [1 .. RefLength -> 0 .. PageCount - 1] :
      \A i \in 1 .. RefLength :
        \A page \in 0 .. s[i] - 1 : \E j \in 1 .. i - 1 : s[j] = page }

\* A process whose references reach every way three resident pages can be
\* referenced again after a fault.
RevisitingProcesses ==
  { << [totalPages |-> 4, referenceString |-> ArrayOf(<<0, 1, 2, 3>> \o s)] >> :
      s \in { <<0, 2, 1>>, <<1, 0, 2>>, <<2, 1, 0>> } }

\* One process that fills three frames and faults once more.
FillAndEvictProcess ==
  << [totalPages |-> 4, referenceString |-> ArrayOf(<<0, 1, 2, 3>>)] >>

PagingWorkloads ==
  { << [totalPages |-> PageCount, referenceString |-> ArrayOf(s)] >> :
      s \in GeneratedReferenceStrings }
  \cup RevisitingProcesses
  \cup { DemoPagingProcesses, FillAndEvictProcess, <<>> }

FrameCountOptions == {0, 1, MaxFrameCount}

PagingEngines ==
  { PagingEngine(procs, alg, [frameCount |-> n]) :
      procs \in PagingWorkloads, alg \in PagingAlgorithms,
      n \in FrameCountOptions }

PagingInit ==
  /\ NoScheduler
  /\ mem = NULL
  /\ lastOp = "construct"
  /\ paging \in PagingEngines
  /\ pagingInput = NULL

\* step()
PagingStep ==
  /\ lastOp' = "step"
  /\ \E t \in Clock(paging) : paging' = pagingStep(paging, t)
  /\ UNCHANGED <<schedulerVars, mem, pagingInput>>

\* runToEnd()
PagingRunToEnd ==
  /\ lastOp' = "runToEnd"
  /\ paging' \in pagingRunLoop(paging)
  /\ UNCHANGED <<schedulerVars, mem, pagingInput>>

PagingNext == PagingStep \/ PagingRunToEnd

PagingSpec == PagingInit /\ [][PagingNext]_vars

\* ------------------------------------------------------- what the claims use
\* The pairs <<pid, page>> of the pages the page tables know.
PagingPages ==
  { <<pid, page>> \in (DOMAIN paging.pageTables)
                        \X (0 .. MaxOf([ i \in DOMAIN paging.processes |->
                                           paging.processes[i].totalPages ]) - 1) :
      page < Len(paging.pageTables[pid]) }

\* The frame ids of the engine.
FrameIds == { paging.frames[i].frameId : i \in DOMAIN paging.frames }

\* Frame f is occupied and holds page `page` of process `pid`.
Holds(p, f, pid, page) ==
  /\ ~p.frames[f + 1].isFree
  /\ p.frames[f + 1].processId = pid
  /\ p.frames[f + 1].pageId = <<page>>

\* A page has been evicted.
Evicted(p) == \E i \in DOMAIN p.logs : p.logs[i].type = "evict"

\* C25: the page tables and the frames describe one mapping: the entry of
\* (pid, page) holds frame f exactly when frame f is occupied and holds
\* (pid, page); a frame id stands in at most one entry, no page stands in
\* two frames, and at most frameCount frames are occupied.
C25_Mapping ==
  /\ \A key \in PagingPages : \A f \in FrameIds :
       paging.pageTables[key[1]][key[2] + 1] = <<f>>
         <=> Holds(paging, f, key[1], key[2])
  /\ \A key \in PagingPages : \A other \in PagingPages :
       /\ paging.pageTables[key[1]][key[2] + 1] # NULL
       /\ paging.pageTables[key[1]][key[2] + 1]
            = paging.pageTables[other[1]][other[2] + 1]
       => key = other
  /\ \A f \in FrameIds : \A g \in FrameIds :
       /\ ~paging.frames[f + 1].isFree
       /\ paging.frames[f + 1].processId = paging.frames[g + 1].processId
       /\ paging.frames[f + 1].pageId = paging.frames[g + 1].pageId
       => f = g
  /\ \A f \in FrameIds :
       ~paging.frames[f + 1].isFree
         => <<paging.frames[f + 1].processId, paging.frames[f + 1].pageId[1]>>
              \in PagingPages
  /\ Cardinality({ f \in FrameIds : ~paging.frames[f + 1].isFree })
       <= paging.frameCount

\* A page was evicted and another loaded into its frame while pages of two
\* processes are resident.
C25_Witness ==
  /\ Evicted(paging)
  /\ \A f \in FrameIds : ~paging.frames[f + 1].isFree
  /\ \E f \in FrameIds : \E g \in FrameIds :
       paging.frames[f + 1].processId # paging.frames[g + 1].processId

\* The reference a step() call is about to consume.
CurrentReference == paging.referenceQueue[paging.currentIndex + 1]

\* The current call is a step() on an engine that is not done.
PagingStepped == lastOp' = "step" /\ ~pagingIsDone(paging)

\* The page table entry of the reference about to be consumed.
CachedFrame ==
  paging.pageTables[CurrentReference.pid][CurrentReference.page + 1]

\* C26: a step() on an engine that is not done consumes exactly one
\* reference; it is counted as a hit exactly when the page table of the
\* process maps the page to a frame before the step and as a fault
\* otherwise, exactly one of pageHits and pageFaults grows by one, a hit
\* changes no frame and no page table entry, and pageHits + pageFaults =
\* totalReferences = the number of references consumed in every state.
C26_StepCounts ==
  /\ [][ PagingStepped =>
           /\ paging'.currentIndex = paging.currentIndex + 1
           /\ paging'.referenceQueue = paging.referenceQueue
           /\ IF CachedFrame # NULL
                THEN /\ paging'.pageHits = paging.pageHits + 1
                     /\ paging'.pageFaults = paging.pageFaults
                     /\ paging'.frames = paging.frames
                     /\ paging'.pageTables = paging.pageTables
                     /\ paging'.logs[1].type = "hit"
                ELSE /\ paging'.pageFaults = paging.pageFaults + 1
                     /\ paging'.pageHits = paging.pageHits
                     /\ \E i \in DOMAIN paging'.logs :
                          /\ paging'.logs[i].type = "fault"
                          /\ paging'.logs[i].page = CurrentReference.page
                          /\ paging'.logs[i].pid = CurrentReference.pid ]_vars
  /\ [] ( /\ paging.pageHits + paging.pageFaults
               = pagingMetrics(paging).totalReferences
          /\ pagingMetrics(paging).totalReferences = paging.currentIndex
          /\ pagingMetrics(paging).pageHits = paging.pageHits
          /\ pagingMetrics(paging).pageFaults = paging.pageFaults )

\* A step hit a page that stands in frame 0 after an earlier eviction.
C26_Witness ==
  /\ lastOp = "step"
  /\ Evicted(paging)
  /\ paging.logs[1].type = "hit"
  /\ paging.logs[1].frame = <<0>>
  /\ paging.pageHits >= 2

\* The ids of the occupied frames of engine p.
OccupiedIds(p) == { f \in 0 .. p.frameCount - 1 : ~p.frames[f + 1].isFree }

\* The frames whose content the current call changes.
ChangedFrames ==
  { f \in FrameIds : paging'.frames[f + 1] # paging.frames[f + 1] }

\* C27: a fault that finds a free frame loads the page into a free frame and
\* evicts nothing; a page is evicted only by a fault that finds every frame
\* occupied, and then exactly one page is evicted and the faulting page is
\* loaded into the frame it vacated; no call lowers the number of occupied
\* frames.
C27_FaultHandling ==
  [][ /\ Cardinality(OccupiedIds(paging')) >= Cardinality(OccupiedIds(paging))
      /\ PagingStepped =>
           /\ \A f \in ChangedFrames :
                /\ CachedFrame = NULL
                /\ Holds(paging', f, CurrentReference.pid,
                         CurrentReference.page)
           /\ CachedFrame = NULL => Cardinality(ChangedFrames) = 1
           /\ CachedFrame = NULL /\ OccupiedIds(paging) # FrameIds =>
                /\ ChangedFrames \cap OccupiedIds(paging) = {}
                /\ paging'.logs[1].type = "load"
                /\ paging'.logs[2].type = "fault"
                /\ \A key \in PagingPages :
                     paging.pageTables[key[1]][key[2] + 1] # NULL =>
                       paging'.pageTables[key[1]][key[2] + 1]
                         = paging.pageTables[key[1]][key[2] + 1]
           /\ CachedFrame = NULL /\ OccupiedIds(paging) = FrameIds =>
                /\ paging'.logs[1].type = "load"
                /\ paging'.logs[2].type = "evict"
                /\ paging'.logs[3].type = "fault"
                /\ paging'.logs[1].frame = paging'.logs[2].frame
                /\ ChangedFrames = {paging'.logs[2].frame[1]}
                /\ Holds(paging, paging'.logs[2].frame[1],
                         paging'.logs[2].pid, paging'.logs[2].page)
                /\ Cardinality({ key \in PagingPages :
                     /\ paging.pageTables[key[1]][key[2] + 1] # NULL
                     /\ paging'.pageTables[key[1]][key[2] + 1] = NULL }) = 1
           /\ paging'.logs[2].type = "evict" =>
                CachedFrame = NULL /\ OccupiedIds(paging) = FrameIds ]_vars

\* A fault found every frame occupied, and its page stands in the vacated
\* frame, which is not frame 0.
C27_Witness ==
  /\ lastOp = "step"
  /\ Len(paging.logs) >= 3
  /\ paging.logs[1].type = "load"
  /\ paging.logs[2].type = "evict"
  /\ paging.logs[2].frame # <<0>>
  /\ Holds(paging, paging.logs[2].frame[1], paging.logs[1].pid,
           paging.logs[1].page)

\* First-in first-out replacement as the textbooks define it, on the first n
\* references of a stream with `frameCount` frames: the resident pages, the
\* earliest loaded first.
RECURSIVE FifoResident(_, _, _)
FifoResident(stream, n, frameCount) ==
  IF n = 0
    THEN <<>>
    ELSE LET before == FifoResident(stream, n - 1, frameCount)
         IN  IF \E i \in DOMAIN before : before[i] = stream[n]
               THEN before
               ELSE IF Len(before) < frameCount
                 THEN Append(before, stream[n])
                 ELSE Append(Tail(before), stream[n])

\* The current call is a step() that evicts a page.
PagingEvicts ==
  /\ PagingStepped
  /\ CachedFrame = NULL
  /\ OccupiedIds(paging) = FrameIds

\* The page the current step() evicts, as the log reports it.
EvictedPage == [pid |-> paging'.logs[2].pid, page |-> paging'.logs[2].page]

\* C28: under FIFO every eviction removes the resident page that was loaded
\* earliest, whatever hits it had since; with 3 frames and the stream
\* 0,1,2,3 of one process all four references fault and the fourth evicts
\* page 0.
C28_Fifo ==
  /\ [][ paging.algorithm = "FIFO" /\ PagingEvicts =>
           /\ paging'.logs[2].type = "evict"
           /\ EvictedPage = Head(FifoResident(paging.referenceQueue,
                                              paging.currentIndex,
                                              paging.frameCount)) ]_vars
  /\ [] ( /\ paging.algorithm = "FIFO"
          /\ paging.frameCount = 3
          /\ paging.referenceQueue = [ i \in 1 .. 4 |->
                                       [pid |-> 1, page |-> i - 1] ]
          /\ pagingIsDone(paging)
          => /\ paging.pageFaults = 4
             /\ paging.pageHits = 0
             /\ paging.pageTables[1] = << NULL, <<1>>, <<2>>, <<0>> >>
             /\ paging.logs[2] = [ type |-> "evict", pid |-> 1, page |-> 0,
                                   frame |-> <<0>> ] )

\* FIFO has just evicted a page that was hit after it was loaded, from a
\* frame other than frame 0.
C28_Witness ==
  /\ lastOp = "step"
  /\ paging.algorithm = "FIFO"
  /\ Len(paging.logs) >= 3
  /\ paging.logs[2].type = "evict"
  /\ paging.logs[2].frame # <<0>>
  /\ \E i \in DOMAIN paging.logs :
       /\ paging.logs[i].type = "hit"
       /\ paging.logs[i].pid = paging.logs[2].pid
       /\ paging.logs[i].page = paging.logs[2].page

\* The position in the stream of the latest consumed reference to the page
\* in frame f: its most recent touch, a load or a hit.
LastTouch(f) ==
  MaxOf([ i \in 1 .. paging.currentIndex |->
            IF /\ paging.referenceQueue[i].pid = paging.frames[f + 1].processId
               /\ <<paging.referenceQueue[i].page>> = paging.frames[f + 1].pageId
              THEN i ELSE 0 ])

\* C29: under LRU every eviction removes the resident page whose most recent
\* touch is the earliest in the order of the reference stream, whatever the
\* wall clock reads while the steps run.
C29_Lru ==
  [][ paging.algorithm = "LRU" /\ PagingEvicts =>
        \A f \in FrameIds :
          Holds(paging, f, EvictedPage.pid, EvictedPage.page) =>
            \A g \in FrameIds : LastTouch(f) <= LastTouch(g) ]_vars

\* The positions in the stream, after the reference the current step()
\* consumes, of the references to the page in frame f.
FutureUses(f) ==
  { i \in paging.currentIndex + 2 .. Len(paging.referenceQueue) :
      /\ paging.referenceQueue[i].pid = paging.frames[f + 1].processId
      /\ <<paging.referenceQueue[i].page>> = paging.frames[f + 1].pageId }

\* The position of the next reference to the page in frame f, which has one.
NextUse(f) ==
  CHOOSE i \in FutureUses(f) : \A j \in FutureUses(f) : i <= j

\* The frames whose page is never referenced again.
NeverAgain == { f \in FrameIds : FutureUses(f) = {} }

\* C30: under OPTIMAL every eviction removes the page of the lowest-numbered
\* frame among the resident pages never referenced after the faulting
\* reference if there is one, and otherwise the resident page whose next
\* reference lies farthest ahead; the faulting reference itself is no
\* future use.
C30_Optimal ==
  [][ paging.algorithm = "OPTIMAL" /\ PagingEvicts =>
        \A f \in FrameIds :
          Holds(paging, f, EvictedPage.pid, EvictedPage.page) =>
            IF NeverAgain # {}
              THEN f \in NeverAgain /\ \A g \in NeverAgain : f <= g
              ELSE \A g \in FrameIds : NextUse(g) <= NextUse(f) ]_vars

\* OPTIMAL has just evicted, from a frame other than frame 0, a page that is
\* referenced again later: every resident page had a future use.
C30_Witness ==
  /\ lastOp = "step"
  /\ paging.algorithm = "OPTIMAL"
  /\ Len(paging.logs) >= 3
  /\ paging.logs[2].type = "evict"
  /\ paging.logs[2].frame # <<0>>
  /\ \E i \in paging.currentIndex + 1 .. Len(paging.referenceQueue) :
       /\ paging.referenceQueue[i].pid = paging.logs[2].pid
       /\ paging.referenceQueue[i].page = paging.logs[2].page

\* The processes of an engine as an argument of the constructor.
Handed(procs) ==
  [ i \in DOMAIN procs |->
      [ totalPages |-> procs[i].totalPages,
        referenceString |-> ArrayOf(procs[i].referenceString) ] ]

\* The page faults of a complete run of the engine's processes and frame
\* count under OPTIMAL, whatever the wall clock reads during that run.
OptimalFaults ==
  { o.pageFaults :
      o \in pagingRunLoop(PagingEngine(Handed(paging.processes), "OPTIMAL",
                                       [frameCount |-> paging.frameCount])) }

\* C31: after runToEnd() the page faults under OPTIMAL are at most those
\* under FIFO and at most those under LRU, for the same reference stream and
\* the same frame count.
C31_Belady ==
  /\ [][ lastOp' = "runToEnd" => pagingIsDone(paging') ]_vars
  /\ [] ( pagingIsDone(paging) /\ lastOp = "runToEnd" =>
            \A faults \in OptimalFaults : faults <= paging.pageFaults )

\* A complete run of several processes under LRU that evicted pages and
\* faulted more often than OPTIMAL does.
C31_Witness ==
  /\ pagingIsDone(paging)
  /\ lastOp = "runToEnd"
  /\ paging.algorithm = "LRU"
  /\ Len(paging.processes) > 1
  /\ Evicted(paging)
  /\ \E faults \in OptimalFaults : faults < paging.pageFaults

(***************************************************************************)
(* The construction of a PagingEngine from the processes it is handed:     *)
(* `pagingInput` holds the argument, Construct builds the engine from it.  *)
(***************************************************************************)

\* Largest totalPages of a handed process; page numbers are handed from -1
\* to this value.
MaxRawPages == 2

\* Largest number of entries of a handed reference string.
MaxRawLength == 2

RawItems == {NaN} \cup (-1 .. MaxRawPages)

RawReferenceStrings ==
  UNION { [1 .. n -> RawItems] : n \in 0 .. MaxRawLength }

\* The processes the constructor can be handed: any totalPages, an array or
\* a text of any entries.
RawProcesses ==
  { [totalPages |-> totalPages, referenceString |-> value] :
      totalPages \in 0 .. MaxRawPages,
      value \in { ArrayOf(items) : items \in RawReferenceStrings }
                  \cup { TextOf(items) : items \in RawReferenceStrings } }

\* A process alone, ahead of a process with two references, and between a
\* process with three references and one with a single reference.
RawWorkloads ==
  { <<process>> : process \in RawProcesses }
  \cup { << process,
            [totalPages |-> 2, referenceString |-> ArrayOf(<<1, 0>>)] >> :
           process \in RawProcesses }
  \cup { << [totalPages |-> 3, referenceString |-> TextOf(<<2, 0, 1>>)],
            process,
            [totalPages |-> 1, referenceString |-> ArrayOf(<<0>>)] >> :
           process \in RawProcesses }
  \cup { <<>> }

StreamInit ==
  /\ NoScheduler
  /\ mem = NULL
  /\ lastOp = "none"
  /\ paging = NULL
  /\ pagingInput \in RawWorkloads

\* new PagingEngine(pagingInput, alg, options)
Construct ==
  /\ paging = NULL
  /\ lastOp' = "construct"
  /\ \E alg \in PagingAlgorithms : \E n \in FrameCountOptions :
       paging' = PagingEngine(pagingInput, alg, [frameCount |-> n])
  /\ UNCHANGED <<schedulerVars, mem, pagingInput>>

StreamNext == Construct

StreamSpec == StreamInit /\ [][StreamNext]_vars

\* The positions of the stream that hold a reference of process pid, in
\* ascending order.
RECURSIVE PositionsOf(_, _, _)
PositionsOf(queue, pid, from) ==
  IF from > Len(queue) THEN <<>>
  ELSE (IF queue[from].pid = pid THEN <<from>> ELSE <<>>)
         \o PositionsOf(queue, pid, from + 1)

\* The value nearest to v in lo .. hi.
Nearest(v, lo, hi) ==
  CHOOSE w \in lo .. hi :
    \A u \in lo .. hi :
      (IF w > v THEN w - v ELSE v - w) <= (IF u > v THEN u - v ELSE v - u)

\* C32: the reference stream is the round-robin interleaving of the
\* processes' reference sequences: it holds every reference of every process
\* exactly once, each process's references in their order, position k of a
\* process before position k of every later process and after position k - 1
\* of every process; every page number lies in 0 .. totalPages - 1 of its
\* process, a handed number outside that range replaced by the nearest
\* bound.
C32_ReferenceStream ==
  paging # NULL =>
    /\ \A pid \in DOMAIN paging.processes :
         \E positions \in {PositionsOf(paging.referenceQueue, pid, 1)} :
           /\ Len(positions) = Len(paging.processes[pid].referenceString)
           /\ \A k \in DOMAIN positions :
                /\ paging.referenceQueue[positions[k]].page
                     = paging.processes[pid].referenceString[k]
                /\ paging.referenceQueue[positions[k]].page
                     \in 0 .. paging.processes[pid].totalPages - 1
                /\ \A other \in DOMAIN paging.processes :
                     \E others \in {PositionsOf(paging.referenceQueue,
                                                other, 1)} :
                       /\ k > 1 /\ k - 1 <= Len(others)
                            => others[k - 1] < positions[k]
                       /\ other > pid /\ k <= Len(others)
                            => positions[k] < others[k]
    /\ \A i \in DOMAIN paging.referenceQueue :
         paging.referenceQueue[i].pid \in DOMAIN paging.processes
    /\ Len(paging.processes) = Len(pagingInput) \/ pagingInput = <<>>
    /\ \A pid \in DOMAIN pagingInput :
         \E items \in {pagingInput[pid].referenceString.items} :
           /\ items # <<>>
           /\ \A k \in DOMAIN items : items[k] # NaN
           => /\ Len(paging.processes[pid].referenceString) = Len(items)
              /\ \A k \in DOMAIN items :
                   paging.processes[pid].referenceString[k]
                     = Nearest(items[k], 0,
                               paging.processes[pid].totalPages - 1)

\* Three processes of unequal lengths were interleaved, the middle one
\* handed a page below and a page above its range.
C32_Witness ==
  /\ paging # NULL
  /\ Len(paging.processes) = 3
  /\ pagingInput[2].totalPages = 2
  /\ pagingInput[2].referenceString = ArrayOf(<<-1, 2>>)
  /\ paging.processes[2].referenceString = <<0, 1>>
  /\ Len(paging.referenceQueue) = 6

\* ---------------------------------------------------------------- C33
\* Process a stands before process b in queue q.
Ahead(q, a, b) ==
  \E i \in DOMAIN q : \E j \in DOMAIN q : i < j /\ q[i] = a /\ q[j] = b

\* C33: under RR, when the quantum of the running process expires at the end
\* of a unit and another process arrives at the clock that unit ends at, the
\* preempted process stands in the ready queue before the newcomer, and it
\* is dispatched again before the newcomer is dispatched.
C33_RrRequeue ==
  /\ [][ /\ algorithm = "RR"
         /\ lastOp' = "step"
         /\ trace # <<>>
         /\ Last(trace).event = "PREEMPT"
         /\ Last(trace).time = time
         => \A q \in Procs :
              processes[q].state = "NEW" /\ processes[q].arrivalTime = time
              => /\ ready # <<>>
                 /\ Last(ready) = Last(trace).proc
                 /\ Ahead(stepArrivals(Eng).ready, Last(trace).proc, q)
                 /\ running' # q
                 /\ processes'[q].state = "READY"
                 /\ \A n \in DOMAIN NewEvents :
                      NewEvents[n].event = "DISPATCH"
                        => NewEvents[n].proc # q ]_vars
  /\ [] ( algorithm = "RR" =>
            \A i \in DOMAIN trace : \A j \in DOMAIN trace :
              /\ trace[i].event = "PREEMPT"
              /\ i < j
              /\ trace[j].event = "DISPATCH"
              /\ processes[trace[j].proc].arrivalTime = trace[i].time
              => \E k \in i + 1 .. j - 1 :
                   /\ trace[k].event = "DISPATCH"
                   /\ trace[k].proc = trace[i].proc )

\* Under RR a process was preempted at the clock another arrived at, was
\* dispatched again first, and the newcomer has been dispatched since.
C33_Witness ==
  /\ algorithm = "RR"
  /\ \E i \in DOMAIN trace : \E j \in DOMAIN trace :
       /\ trace[i].event = "PREEMPT"
       /\ i < j
       /\ trace[j].event = "DISPATCH"
       /\ trace[j].proc # trace[i].proc
       /\ processes[trace[j].proc].arrivalTime = trace[i].time
       /\ trace[i + 1].event = "ARRIVAL"
       /\ trace[i + 1].proc = trace[j].proc

\* ---------------------------------------------------------------- C34
\* The ready queue holds exactly the READY processes, each once, never the
\* running process, and completedCount counts the TERMINATED processes.
ReadyConsistent ==
  /\ \A p \in Procs :
       processes[p].state = "READY" <=> \E i \in DOMAIN ready : ready[i] = p
  /\ \A i \in DOMAIN ready : \A j \in DOMAIN ready :
       ready[i] = ready[j] => i = j
  /\ \A i \in DOMAIN ready : ready[i] \in Procs /\ ready[i] # running
  /\ completedCount
       = Cardinality({p \in Procs : processes[p].state = "TERMINATED"})
  /\ isDone(Eng) <=> AllTerminated

\* C34: after any sequence of step() calls under any policy the ready queue
\* holds exactly the processes whose state is READY, each exactly once, the
\* running process is not in it, completedCount is the number of TERMINATED
\* processes, and isDone() holds exactly when every process is TERMINATED.
C34_ReadyConsistency ==
  /\ [] ReadyConsistent
  /\ [][ lastOp' = "step" => ReadyConsistent' ]_vars

\* A preempted process waits in the ready queue behind another while a
\* third runs and none has terminated.
C34_Witness ==
  /\ lastOp = "step"
  /\ Len(ready) = 2
  /\ running # 0
  /\ completedCount = 0
  /\ \E i \in DOMAIN trace : trace[i].event = "PREEMPT"

\* ---------------------------------------------------------------- C35
\* The processes that are READY or RUNNING once the arrivals at the current
\* clock have been admitted.
Runnable ==
  { p \in Procs :
      \/ processes[p].state \in {"READY", "RUNNING"}
      \/ processes[p].state = "NEW" /\ processes[p].arrivalTime = time }

\* C35: a step of an engine that is not done records an IDLE event, and
\* executes no process, exactly when no process is READY or RUNNING after
\* the arrivals of that step; a process that arrives at clock t while the
\* CPU is free and nothing else is ready executes in the unit [t, t + 1).
C35_WorkConserving ==
  [][ lastOp' = "step" /\ ~isDone(Eng) =>
        /\ HasEvent(NewEvents, "IDLE") <=> Runnable = {}
        /\ Runnable = {} =>
             /\ gantt' = gantt
             /\ \A p \in Procs :
                  processes'[p].remainingTime = processes[p].remainingTime
        /\ Runnable # {} =>
             \E p \in Runnable :
               /\ processes'[p].remainingTime = processes[p].remainingTime - 1
               /\ Last(gantt').pid = processes[p].pid
               /\ Last(gantt').end = time + 1
               /\ Last(gantt').start <= time
        /\ \A p \in Procs :
             Runnable = {p} /\ processes[p].state = "NEW" =>
               /\ processes'[p].remainingTime = processes[p].remainingTime - 1
               /\ Last(gantt').pid = processes[p].pid
               /\ Last(gantt').end = time + 1 ]_vars

\* After an idle unit a process arrived at a free CPU and ran in the unit
\* that starts at its arrival.
C35_Witness ==
  /\ lastOp = "step"
  /\ HasEvent(trace, "IDLE")
  /\ gantt # <<>>
  /\ \E p \in Procs :
       /\ Last(gantt).pid = processes[p].pid
       /\ Last(gantt).start = processes[p].arrivalTime
       /\ Last(gantt).end = time
       /\ Len(gantt) = 1
       /\ processes[p].arrivalTime = time - 1
       /\ processes[p].arrivalTime > 0

\* ---------------------------------------------------------------- C36
\* The processes the current call executes a unit of.
Executing ==
  { p \in Procs : processes'[p].remainingTime < processes[p].remainingTime }

\* C36: under SRTF every step that executes a unit of work executes a
\* process whose remainingTime, before the unit, is the smallest among the
\* processes READY or RUNNING in that step; under PRIORITY it executes one
\* whose priority is numerically the lowest among them.
C36_PreemptiveChoice ==
  [][ lastOp' = "step" =>
        \A p \in Executing : \A q \in Runnable :
          /\ algorithm = "SRTF" =>
               processes[p].remainingTime <= processes[q].remainingTime
          /\ algorithm = "PRIORITY" =>
               processes[p].priority <= processes[q].priority ]_vars

\* Under SRTF a step executed a process that had arrived in that step with
\* less remaining time than the process running until then.
C36_Witness ==
  /\ lastOp = "step"
  /\ algorithm = "SRTF"
  /\ running # 0
  /\ processes[running].arrivalTime = time - 1
  /\ Len(gantt) >= 2
  /\ Last(gantt).pid = processes[running].pid
  /\ Last(gantt).start = time - 1
  /\ \E i \in DOMAIN trace :
       /\ trace[i].event = "PREEMPT"
       /\ trace[i].time = time - 1

\* ---------------------------------------------------------------- C37
\* The timeline segments of process p.
SegmentsOf(p) ==
  SelectSeq(gantt, LAMBDA segment : segment.pid = processes[p].pid)

\* C37: under FCFS and SJF no PREEMPT event is ever recorded, a RUNNING
\* process stays RUNNING in every step until it is TERMINATED, whatever
\* becomes READY meanwhile, and each process executes in one contiguous
\* interval, whose length is its burstTime once it has terminated.
C37_NonPreemptive ==
  /\ [][ lastOp' = "step" /\ algorithm \in {"FCFS", "SJF"} /\ running # 0 =>
           /\ processes'[running].remainingTime
                = processes[running].remainingTime - 1
           /\ \/ running' = running /\ processes'[running].state = "RUNNING"
              \/ running' = 0 /\ processes'[running].state = "TERMINATED"
     ]_vars
  /\ [] ( algorithm \in {"FCFS", "SJF"} =>
            /\ ~HasEvent(trace, "PREEMPT")
            /\ \A p \in Procs :
                 /\ Len(SegmentsOf(p)) <= 1
                 /\ processes[p].state = "TERMINATED" =>
                      /\ Len(SegmentsOf(p)) = 1
                      /\ SegmentsOf(p)[1].end - SegmentsOf(p)[1].start
                           = processes[p].burstTime
                 /\ processes[p].state = "RUNNING" =>
                      /\ Len(SegmentsOf(p)) = 1
                      /\ SegmentsOf(p)[1].end = time
                      /\ SegmentsOf(p)[1].end - SegmentsOf(p)[1].start
                           = processes[p].burstTime
                               - processes[p].remainingTime )

\* Under SJF a process keeps running although a process with a shorter
\* burst has become READY.
C37_Witness ==
  /\ algorithm = "SJF"
  /\ lastOp = "step"
  /\ running # 0
  /\ processes[running].remainingTime < processes[running].burstTime
  /\ \E i \in DOMAIN ready :
       /\ processes[ready[i]].burstTime < processes[running].remainingTime
       /\ processes[ready[i]].arrivalTime > processes[running].arrivalTime

\* ---------------------------------------------------------------- C38
\* The total length of the segments of process p.
SegmentLength(p) ==
  sum([ i \in DOMAIN gantt |->
          IF gantt[i].pid = processes[p].pid
            THEN gantt[i].end - gantt[i].start ELSE 0 ])

\* C38: the segments of the timeline are in ascending order of time and do
\* not overlap, each has start < end <= clock, two consecutive segments
\* never have the same pid, the segments of a process cover exactly the
\* clock units in which it executed (a step that executes a process adds
\* the unit that starts at the clock to that process's segments, as a new
\* segment or by extending the segment that ends at the clock, and changes
\* nothing else; a step that executes nothing leaves the timeline alone),
\* and their total length is burstTime - remainingTime.
C38_Timeline ==
  /\ [][ lastOp' = "step" =>
           /\ Executing = {} => gantt' = gantt
           /\ \A p \in Executing :
                \/ gantt' = Append(gantt, [pid |-> processes[p].pid,
                                           start |-> time, end |-> time + 1])
                \/ /\ gantt # <<>>
                   /\ Last(gantt).pid = processes[p].pid
                   /\ Last(gantt).end = time
                   /\ gantt' = [gantt EXCEPT ![Len(gantt)].end = time + 1]
       ]_vars
  /\ [] ( /\ \A i \in DOMAIN gantt :
               /\ gantt[i].start < gantt[i].end
               /\ gantt[i].end <= time
               /\ i > 1 => /\ gantt[i - 1].end <= gantt[i].start
                           /\ gantt[i - 1].pid # gantt[i].pid
               /\ \E p \in Procs : processes[p].pid = gantt[i].pid
          /\ \A p \in Procs :
               SegmentLength(p)
                 = processes[p].burstTime - processes[p].remainingTime )

\* A preempted process has two segments, separated by a segment of another
\* process, and the later one was extended.
C38_Witness ==
  /\ lastOp = "step"
  /\ Len(gantt) >= 3
  /\ gantt[1].pid = gantt[3].pid
  /\ gantt[3].end - gantt[3].start >= 2
  /\ HasEvent(trace, "PREEMPT")

\* ---------------------------------------------------------------- C39
\* The engines n calls of step() can lead engine p to, over the readings of
\* the wall clock.
RECURSIVE StepsFrom(_, _)
StepsFrom(p, n) ==
  IF n = 0
    THEN {p}
    ELSE UNION { StepsFrom(pagingStep(p, t), n - 1) : t \in Clock(p) }

\* C39: an engine constructed with the same processes, policy and frame
\* count and stepped the same number of times has the same frames, page
\* tables and hit and fault counters, whenever its steps are executed.
C39_Determinism ==
  \A other \in StepsFrom(PagingEngine(Handed(paging.processes),
                                      paging.algorithm,
                                      [frameCount |-> paging.frameCount]),
                         paging.currentIndex) :
    /\ other.frames = paging.frames
    /\ other.pageTables = paging.pageTables
    /\ other.pageHits = paging.pageHits
    /\ other.pageFaults = paging.pageFaults

\* ---------------------------------------------------------------- C40
\* C40: a snapshot of the memory engine holds no reference into the engine:
\* no later step() or runToEnd() changes anything in a snapshot returned
\* before, its currentRequest, requests and segments included; getSnapshot()
\* changes no engine state, and called twice with no step() in between it
\* returns equal snapshots.
C40_MemSnapshot ==
  [][ /\ lastOp' \in {"step", "runToEnd"} /\ held # NULL =>
           /\ held' # NULL
           /\ held'.snapshot = held.snapshot
      /\ lastOp' = "getSnapshot" =>
           /\ mem' = mem
           /\ lastOp = "getSnapshot" => held'.snapshot = held.snapshot
    ]_vars

====
